---- MODULE Spec2Model ----
(***************************************************************************)
(* Model of the elsa_crawler crawl engine: the document validity gate of   *)
(* DocumentExtractor, the round-robin partition of CrawlerOrchestrator,    *)
(* the recursive per-category crawl of CrawlerWorker, the orchestrator's   *)
(* life cycle as driven by the command line, and the start/stop handlers   *)
(* of the REST API with their module-level state.                          *)
(***************************************************************************)
EXTENDS Integers, Sequences, FiniteSets, TLC

VARIABLES
    env,      \* the surroundings: the category tree of the UI, whether the UI is reliable,
              \* whether Redis and Kafka are reachable
    cfg,      \* the ElsaConfig singleton (config.py get_config)
    api,      \* routes.py module state: _is_running, _orchestrator, _crawler_task
    reqs,     \* the API request handlers in flight
    cli,      \* position of cli/main.py main()
    orch,     \* the CrawlerOrchestrator objects
    wk,       \* the CrawlerWorker objects of each orchestrator
    sink,     \* DocumentData records handed to Redis / Kafka
    fx        \* a pure function applied to a drawn input, and its result; in the
              \* server, the response of the last stop or status request

vars == <<env, cfg, api, reqs, cli, orch, wk, sink, fx>>

\* Python's None, for values that are records otherwise
None == [is_none |-> TRUE]

(***************************************************************************)
(* Bounds of the model.                                                    *)
(***************************************************************************)
MaxTextLen == 250     \* longest frame text drawn
MaxN == 3             \* largest worker count drawn (config allows 1..10)
MaxDocsPerCategory == 2   \* config.max_documents_per_category as drawn (config allows 1..500)
MaxFaults == 2        \* most steps of one run in which a call on the page fails
MaxStarts == 3        \* most start requests the API receives in one run
MaxStopStarts == 2    \* most start requests of a server that also receives stop requests
MaxFrames == 2        \* most frames of the page when the frames are classified
MaxLoginTime == 3     \* login_timeout, in units of the shortest wait of the login loop
MaxRows == 2          \* most rows of the history table

(***************************************************************************)
(* Frame texts.  A text is abstracted to its length and to the phrases of  *)
(* interest it contains; includes(T, p) is p \in T.has.                    *)
(***************************************************************************)
DocMarkers ==
    {"Vorgangs-Nr", "Kundenaussage", "Kundenbemerkung", "Loesung", "Datum:", "Fahrzeug"}

NavSignature == {"Neuheiten", "Feldmassnahmen", "Hinweise"}

Phrases == DocMarkers \cup NavSignature

PhraseLen(p) ==
    CASE p = "Vorgangs-Nr" -> 11 [] p = "Kundenaussage" -> 13
      [] p = "Kundenbemerkung" -> 15 [] p = "Loesung" -> 6
      [] p = "Datum:" -> 6 [] p = "Fahrzeug" -> 8
      [] p = "Neuheiten" -> 9 [] p = "Feldmassnahmen" -> 13
      [] p = "Hinweise" -> 8

RECURSIVE SumLen(_)
SumLen(ps) ==
    IF ps = {} THEN 0
    ELSE LET p == CHOOSE q \in ps : TRUE IN PhraseLen(p) + SumLen(ps \ {p})

TextLens == {0, 50, 99, 100, 101, 199, 200, MaxTextLen}

\* every text a frame can hold: one containing phrases is at least as long as they are
Texts == {t \in [len : TextLens, has : SUBSET Phrases] : SumLen(t.has) <= t.len}

\* a frame: its body text, and whether evaluating a script in it throws
Frames == [text : Texts, raises : BOOLEAN]

(***************************************************************************)
(* DocumentExtractor (extractors/documents.py)                             *)
(***************************************************************************)
MinDocLen == 100

\* _try_extract_from_frame with the marker test dropped
try_extract_no_marker_check(frame) ==
    IF frame.raises THEN None
    ELSE IF frame.text.len < MinDocLen THEN None
    ELSE IF NavSignature \subseteq frame.text.has THEN None
    ELSE [text |-> frame.text, length |-> frame.text.len]

\* _try_extract_from_frame with the navigation-signature exclusion dropped
try_extract_no_nav_exclusion(frame) ==
    IF frame.raises THEN None
    ELSE IF frame.text.len < MinDocLen THEN None
    ELSE IF frame.text.has \cap DocMarkers = {} THEN None
    ELSE [text |-> frame.text, length |-> frame.text.len]

\* _try_extract_from_frame: the content dict, or None
try_extract_from_frame(frame) ==
    IF frame.raises THEN None
    ELSE IF frame.text.len < MinDocLen THEN None
    ELSE IF NavSignature \subseteq frame.text.has THEN None
    ELSE IF frame.text.has \cap DocMarkers = {} THEN None
    ELSE [text |-> frame.text, length |-> frame.text.len]

\* ExtractedDocument(...): pydantic keeps the declared fields only, so the
\* vorgangs_nr keyword given by the extractor is dropped
ExtractedDocument(category_id, category_name, vorgangs_nr, content, method) ==
    [category_id |-> category_id, category_name |-> category_name,
     title |-> vorgangs_nr, content |-> content, extraction_method |-> method]

\* a fallback loop that keeps every content it gets
RECURSIVE best_content_latest(_, _, _)
best_content_latest(frames, best, best_length) ==
    IF frames = <<>> THEN best
    ELSE LET content == try_extract_from_frame(Head(frames)) IN
         IF content # None
         THEN best_content_latest(Tail(frames), content, content.length)
         ELSE best_content_latest(Tail(frames), best, best_length)

\* the fallback loop: the longest valid content, the first one among equals
RECURSIVE best_content(_, _, _)
best_content(frames, best, best_length) ==
    IF frames = <<>> THEN best
    ELSE LET content == try_extract_from_frame(Head(frames)) IN
         IF content # None /\ content.length > best_length
         THEN best_content(Tail(frames), content, content.length)
         ELSE best_content(Tail(frames), best, best_length)

\* extract_document_content: the document, or None
extract_document_content(frames, document_frame, vorgangs_nr, category_id, category_name) ==
    LET hinted == IF document_frame = None THEN None
                  ELSE try_extract_from_frame(document_frame)
        best == best_content(frames, None, 0)
    IN  IF hinted # None
        THEN ExtractedDocument(category_id, category_name, vorgangs_nr, hinted.text, "new")
        ELSE IF best # None
        THEN ExtractedDocument(category_id, category_name, vorgangs_nr, best.text, "fallback")
        ELSE None

(***************************************************************************)
(* CrawlerOrchestrator._distribute_categories (crawler/orchestrator.py)    *)
(***************************************************************************)
\* the positions 1..len of a list that go to chunk k (0-based) of n
ChunkPositions(len, n, k) == {i \in 1..len : (i - 1) % n = k}

RECURSIVE SubSeqAt(_, _, _)
\* the elements of s at the positions in ps, in list order, scanning from i
SubSeqAt(s, ps, i) ==
    IF i > Len(s) THEN <<>>
    ELSE IF i \in ps THEN <<s[i]>> \o SubSeqAt(s, ps, i + 1)
    ELSE SubSeqAt(s, ps, i + 1)

\* _distribute_categories: chunk k+1 holds the categories at positions i % n = k
distribute_categories(all_categories, max_workers) ==
    [k \in 1..max_workers |->
        SubSeqAt(all_categories, ChunkPositions(Len(all_categories), max_workers, k - 1), 1)]

\* zip(self.workers, category_chunks): worker k gets chunk k, the longer list is cut
zip_workers_chunks(nworkers, chunks) ==
    [k \in 1..(IF nworkers < Len(chunks) THEN nworkers ELSE Len(chunks)) |-> chunks[k]]

(***************************************************************************)
(* The remote UI: category trees it can show.  A category is identified by *)
(* its id; docs gives the keys of the rows of its listing, in row order.   *)
(***************************************************************************)
Cats == {"A", "A1", "A2", "B", "C", "D", "E"}

Keys == {"1/1", "1/2", "1/3", "1/4"}

NoChildren == [c \in Cats |-> <<>>]

\* the id in the link of a node (its levelCode): the nodes are named by it
\* unless two nodes carry the same
OwnId == [c \in Cats |-> c]

\* [A(children=[A1,A2]), B(children=[])], one document per category
TreeNested ==
    [top |-> <<"A", "B">>,
     id |-> OwnId,
     children |-> ("A" :> <<"A1", "A2">>) @@ NoChildren,
     docs |-> ("A" :> <<"1/1">>) @@ ("A1" :> <<"1/2">>) @@ ("A2" :> <<"1/3">>)
              @@ ("B" :> <<"1/4">>) @@ [c \in Cats |-> <<>>]]

\* five top-level categories with empty listings
TreeFlat ==
    [top |-> <<"A", "B", "C", "D", "E">>,
     id |-> OwnId,
     children |-> NoChildren,
     docs |-> [c \in Cats |-> <<>>]]

\* one category with one child; a key listed by both, a key listed twice, a
\* listing that can exceed the cap
TreeSmall ==
    [top |-> <<"A">>,
     id |-> OwnId,
     children |-> ("A" :> <<"A1">>) @@ NoChildren,
     docs |-> ("A" :> <<"1/1">>) @@ ("A1" :> <<"1/1", "1/2", "1/2", "1/3">>)
              @@ [c \in Cats |-> <<>>]]

\* one category with one document and one child with one document
TreePair ==
    [top |-> <<"A">>,
     id |-> OwnId,
     children |-> ("A" :> <<"A1">>) @@ NoChildren,
     docs |-> ("A" :> <<"1/1">>) @@ ("A1" :> <<"1/2">>) @@ [c \in Cats |-> <<>>]]

\* one category without documents whose child lists one document
TreeBare ==
    [top |-> <<"A">>,
     id |-> OwnId,
     children |-> ("A" :> <<"A1">>) @@ NoChildren,
     docs |-> ("A1" :> <<"1/1">>) @@ [c \in Cats |-> <<>>]]

\* a category A with a child A1, below which a node carries the id of A again
TreeLoop ==
    [top |-> <<"A">>,
     id |-> ("A2" :> "A") @@ OwnId,
     children |-> ("A" :> <<"A1">>) @@ ("A1" :> <<"A2">>) @@ NoChildren,
     docs |-> ("A" :> <<"1/1">>) @@ ("A1" :> <<"1/2">>) @@ [c \in Cats |-> <<>>]]

Trees == {TreeNested, TreeFlat, TreeSmall, TreeBare, TreeLoop}

\* whether the surroundings can still let a call fail
MayFail == ~env.reliable /\ env.faults < MaxFaults

\* outcomes of a fallible call
Outcomes == IF MayFail THEN BOOLEAN ELSE {TRUE}

\* whether a call that only raises when the page is gone does so
Raises == IF MayFail THEN BOOLEAN ELSE {FALSE}

\* outcomes of a call on a connected sink: any of them may fail, each failure
\* is caught where the call is made
SinkOutcomes == IF env.reliable THEN {TRUE} ELSE BOOLEAN

\* a step in which some call on the page failed uses up one of the run's faults
Fault(failed) == env' = IF failed THEN [env EXCEPT !.faults = @ + 1] ELSE env

\* frame texts used by the crawl
NavText == [len |-> 200, has |-> NavSignature \cup {"Fahrzeug"}]
DocText == [len |-> MaxTextLen, has |-> {"Vorgangs-Nr", "Kundenaussage"}]
MidText == [len |-> 101, has |-> {"Fahrzeug"}]
ShortText == [len |-> 99, has |-> {"Vorgangs-Nr"}]
PlainText == [len |-> 200, has |-> {}]

Fr(text) == [text |-> text, raises |-> FALSE]

\* page.frames after a document link was activated
IdealFrames == <<Fr(NavText), Fr(DocText)>>

DetailFrames ==
    IF ~MayFail THEN {IdealFrames}
    ELSE {<<Fr(NavText), Fr(DocText)>>, <<Fr(NavText), Fr(MidText)>>,
          <<Fr(NavText), Fr(ShortText)>>, <<Fr(NavText), Fr(PlainText)>>,
          <<Fr(NavText), [text |-> DocText, raises |-> TRUE]>>}

(***************************************************************************)
(* CategoryExtractor.collect_all_categories: every node of the tree below  *)
(* the root, parents before children, in document order.                   *)
(***************************************************************************)
RECURSIVE parseNodes(_, _)
parseNodes(tree, nodes) ==
    IF nodes = <<>> THEN <<>>
    ELSE <<Head(nodes)>> \o parseNodes(tree, tree.children[Head(nodes)])
         \o parseNodes(tree, Tail(nodes))

\* the categories of the tree, each with the id of its node
collect_all_categories(tree) ==
    LET nodes == parseNodes(tree, tree.top) IN
    [i \in DOMAIN nodes |-> tree.id[nodes[i]]]

\* the first list item of the document whose link is the one of category cat
first_li(tree, cat) ==
    LET nodes == parseNodes(tree, tree.top) IN
    nodes[CHOOSE i \in DOMAIN nodes :
            /\ tree.id[nodes[i]] = cat
            /\ \A j \in 1..(i - 1) : tree.id[nodes[j]] # cat]

\* _find_visible_subcategories(cat): the ids of the child items of that item
visible_subcategories(tree, cat) ==
    LET below == tree.children[first_li(tree, cat)] IN
    [i \in DOMAIN below |-> tree.id[below[i]]]

(***************************************************************************)
(* CrawlerWorker (crawler/worker.py).  A worker is a record; the recursion *)
(* of crawl_category is its stack of activations, innermost first.  The    *)
(* field obs records what the worker did (calls, activations, failures)    *)
(* and is never read by the worker.                                        *)
(***************************************************************************)
NewStats == [categories_crawled |-> 0, documents_extracted |-> 0, errors |-> 0]

NewObs ==
    [called |-> {},                       \* categories crawl_category was called with
     activations |-> 0,                   \* _click_category calls
     refreshes |-> 0,                     \* _refresh_content_frame calls
     expanded |-> [c \in Cats |-> 0],     \* calls per category that passed the visited test
     stale_reads |-> 0,                   \* reads of a content frame found before a click
     doc_activations |-> [k \in Keys |-> 0],   \* _click_document_link calls per key
     extractions |-> [k \in Keys |-> 0],  \* extract_document_content calls per key
     saves |-> [k \in Keys |-> 0],        \* _save_document calls per key
     skipped |-> {},                      \* keys of rows skipped as already visited
     produced |-> {},                     \* documents returned by the extractor
     failed |-> {},                       \* categories and keys of branch-level failures
     not_clicked |-> {},                  \* categories whose _click_category returned False
     clicked |-> {},                      \* categories whose _click_category returned True
     raised |-> {},                       \* categories whose call raised at line 252
     queried |-> {},                      \* categories whose children were queried
     repeated |-> {}]                     \* categories of calls that returned at once

\* CrawlerWorker.__init__
NewWorker ==
    [exists |-> FALSE, vin |-> "", navigation_frame |-> FALSE,
     content_frame |-> None, document_frame |-> None,
     visited_categories |-> {}, visited_documents |-> {},
     stats |-> NewStats, stack |-> <<>>, chunk |-> <<>>, pos |-> 0,
     task |-> "none", ret |-> 0, obs |-> NewObs]

\* a call of crawl_category(cat): its local variables
Activation(cat) ==
    [cat |-> cat, pc |-> "entry", documents_extracted |-> 0,
     doc_links |-> <<>>, idx |-> 1, count |-> 0, subcategories |-> <<>>, si |-> 1]

Min(a, b) == IF a < b THEN a ELSE b

SetTop(w, f) == [w EXCEPT !.stack = <<f>> \o Tail(w.stack)]

\* crawl_category returns v: the caller adds it to its documents_extracted
Return(w, v) ==
    LET rest == Tail(w.stack) IN
    [w EXCEPT !.ret = v,
              !.stack = IF rest = <<>> THEN <<>>
                        ELSE <<[Head(rest) EXCEPT !.documents_extracted = @ + v]>>
                             \o Tail(rest)]

\* an error handler that starts the counters afresh
RaiseToTask_resetting(w) ==
    [w EXCEPT !.stack = <<>>, !.stats = [NewStats EXCEPT !.errors = 1]]

\* an error handler that ends the worker's task
RaiseToTask_ending_task(w) ==
    [w EXCEPT !.stack = <<>>, !.stats.errors = @ + 1, !.task = "done"]

\* an exception leaves every activation and reaches _worker_crawl_task's handler
RaiseToTask(w) ==
    [w EXCEPT !.stack = <<>>, !.stats.errors = @ + 1]

\* a failed activation after which the category's children are queried all the same
activation_failed_goes_on(w, c) ==
    SetTop([w EXCEPT !.obs.failed = @ \cup {c}], [Head(w.stack) EXCEPT !.pc = "subs"])

\* crawl_category, lines 253-255: the link was not clicked, the call returns 0
activation_failed(w, c) ==
    Return([w EXCEPT !.obs.failed = @ \cup {c}], 0)

RECURSIVE SumOfKeys(_, _)
SumOfKeys(f, ks) ==
    IF ks = {} THEN 0
    ELSE LET k == CHOOSE x \in ks : TRUE IN f[k] + SumOfKeys(f, ks \ {k})

\* the clicks of the worker on the page so far: _click_category and
\* _click_document_link calls
Navigations(w) == w.obs.activations + SumOfKeys(w.obs.doc_activations, Keys)

\* _refresh_content_frame that keeps the old reference when no frame has rows
refresh_content_frame_keeping(w, cat, found) ==
    [w EXCEPT !.content_frame = IF found THEN [shows |-> cat, at |-> Navigations(w)]
                                ELSE @,
              !.obs.refreshes = @ + 1]

\* _refresh_content_frame: the reference is dropped, then the first frame with
\* rows; a reference keeps the number of clicks after which it was found
refresh_content_frame(w, cat, found) ==
    [w EXCEPT !.content_frame = IF found THEN [shows |-> cat, at |-> Navigations(w)]
                                ELSE None,
              !.obs.refreshes = @ + 1]

\* lines 259 and 579: self.content_frame is read
read_content_frame(w) ==
    IF w.content_frame # None /\ w.content_frame.at # Navigations(w)
    THEN [w EXCEPT !.obs.stale_reads = @ + 1]
    ELSE w

\* a visited test that never finds the category
category_never_visited(w, c) == FALSE

\* line 242: category.id in self.visited_categories
category_visited(w, c) == c \in w.visited_categories

\* crawl_category marking the category visited only once its activation succeeded
crawl_category_mark_after_click(w, out) ==
    LET f == Head(w.stack)
        c == f.cat
        w0 == [w EXCEPT !.obs.called = @ \cup {c}]
    IN  IF c \in w.visited_categories
        THEN Return([w0 EXCEPT !.obs.repeated = @ \cup {c}], 0)
        ELSE LET w1 == [w0 EXCEPT !.obs.expanded[c] = @ + 1,
                                  !.obs.activations = @ + 1,
                                  !.obs.not_clicked = IF out.clicked THEN @ ELSE @ \cup {c},
                                  !.obs.clicked = IF out.clicked THEN @ \cup {c} ELSE @] IN
             IF out.raises THEN RaiseToTask([w1 EXCEPT !.obs.raised = @ \cup {c}])
             ELSE IF ~out.clicked
             THEN activation_failed(w1, c)
             ELSE LET w2 == read_content_frame(refresh_content_frame(
                               [w1 EXCEPT !.visited_categories = @ \cup {c}], c, out.found))
                  IN  IF w2.content_frame = None
                      THEN Return([w2 EXCEPT !.obs.failed = @ \cup {c}], 0)
                      ELSE SetTop(w2, [f EXCEPT !.pc = IF out.rows = <<>> THEN "subs" ELSE "docs",
                                              !.doc_links = out.rows])

\* crawl_category, lines 242-264: the visited test, the activation, the content
\* frame refresh and the listing read by _extract_documents_from_content.
\* out: clicked (result of _click_category), raises (wait_for_timeout throws),
\* found (a frame with rows exists), rows (the keys read by _extract_document_list)
crawl_category(w, out) ==
    LET f == Head(w.stack)
        c == f.cat
        w0 == [w EXCEPT !.obs.called = @ \cup {c}]
    IN  IF category_visited(w, c)
        THEN Return([w0 EXCEPT !.obs.repeated = @ \cup {c}], 0)
        ELSE LET w1 == [w0 EXCEPT !.visited_categories = @ \cup {c},
                                  !.obs.expanded[c] = @ + 1,
                                  !.obs.activations = @ + 1,
                                  !.obs.not_clicked = IF out.clicked THEN @ ELSE @ \cup {c},
                                  !.obs.clicked = IF out.clicked THEN @ \cup {c} ELSE @] IN
             IF out.raises THEN RaiseToTask([w1 EXCEPT !.obs.raised = @ \cup {c}])
             ELSE IF ~out.clicked
             THEN activation_failed(w1, c)
             ELSE LET w2 == read_content_frame(refresh_content_frame(w1, c, out.found)) IN
                  IF w2.content_frame = None
                  THEN Return([w2 EXCEPT !.obs.failed = @ \cup {c}], 0)
                  ELSE SetTop(w2, [f EXCEPT !.pc = IF out.rows = <<>> THEN "subs" ELSE "docs",
                                              !.doc_links = out.rows])

\* _refresh_document_frame: the first frame with >= 200 characters and a marker
DocFrameMinLen == 200

DocFrameMarkers == DocMarkers \ {"Fahrzeug"}

RECURSIVE refresh_document_frame(_)
refresh_document_frame(frames) ==
    IF frames = <<>> THEN None
    ELSE LET fr == Head(frames) IN
         IF ~fr.raises /\ fr.text.len >= DocFrameMinLen
            /\ fr.text.has \cap DocFrameMarkers # {}
         THEN fr
         ELSE refresh_document_frame(Tail(frames))

\* _save_document, line 624: self.config.vin or "UNKNOWN"
document_vin(config_vin) == IF config_vin = "" THEN "UNKNOWN" ELSE config_vin

\* DocumentData(...) as built by _save_document
DocumentData(config_vin, doc) ==
    [vin |-> document_vin(config_vin),
     category |-> doc.category_name, vorgangs_nr |-> doc.vorgangs_nr,
     title |-> doc.title, content |-> doc.content]

\* a save that raises whenever a sink is not connected or a sink call fails
save_document_needs_sinks(doc, config_vin, sinks) ==
    IF sinks.redis /\ sinks.redis_ok /\ sinks.kafka /\ sinks.kafka_ok
    THEN [raised |-> FALSE,
          emits |-> {[to |-> "redis", data |-> doc], [to |-> "kafka", data |-> doc]}]
    ELSE [raised |-> TRUE, emits |-> {}]

\* _save_document: reading doc.vorgangs_nr raises AttributeError when the document
\* has no such attribute; otherwise the record goes to Redis and to Kafka, each
\* only if connected and each failure swallowed.
\* sinks: [redis, kafka : connected?, redis_ok, kafka_ok : the call succeeds?]
save_document(doc, config_vin, sinks) ==
    IF "vorgangs_nr" \notin DOMAIN doc
    THEN [raised |-> TRUE, emits |-> {}]
    ELSE LET data == DocumentData(config_vin, doc) IN
         [raised |-> FALSE,
          emits |-> (IF sinks.redis /\ sinks.redis_ok
                     THEN {[to |-> "redis", data |-> data]} ELSE {})
                    \cup (IF sinks.kafka /\ sinks.kafka_ok
                          THEN {[to |-> "kafka", data |-> data]} ELSE {})]

\* a row loop that ends after every row
NextRow_ending_the_loop(w, max_docs) ==
    LET f == Head(w.stack) IN
    SetTop(w, [f EXCEPT !.idx = @ + 1, !.documents_extracted = f.count, !.pc = "subs"])

\* a row loop over all of doc_links
NextRow_of_all_links(w, max_docs) ==
    LET f == Head(w.stack) IN
    IF f.idx + 1 > Len(f.doc_links)
    THEN SetTop(w, [f EXCEPT !.idx = @ + 1, !.documents_extracted = f.count, !.pc = "subs"])
    ELSE SetTop(w, [f EXCEPT !.idx = @ + 1])

\* the row loop goes on with the next row, or ends and returns count
NextRow(w, max_docs) ==
    LET f == Head(w.stack) IN
    IF f.idx + 1 > Min(Len(f.doc_links), max_docs)
    THEN SetTop(w, [f EXCEPT !.idx = @ + 1, !.documents_extracted = f.count, !.pc = "subs"])
    ELSE SetTop(w, [f EXCEPT !.idx = @ + 1])

\* a visited test that never finds the key
document_never_visited(w, vorgangs_nr) == FALSE

\* line 489: vorgangs_nr in self.visited_documents
document_visited(w, vorgangs_nr) == vorgangs_nr \in w.visited_documents

\* a test of line 516 that never finds another link
no_link_listed(f) == FALSE

\* line 516: idx < len(doc_links), the row is not the last link of the listing
another_link_listed(f) == f.idx < Len(f.doc_links)

\* _extract_documents_from_content, lines 486-519: one row of the loop.
\* out: clicked (_click_document_link), frames (page.frames afterwards),
\* refound (the content frame is found again after the category is re-activated)
extract_row(w, out, config_vin, max_docs, sinks) ==
    LET f == Head(w.stack)
        vorgangs_nr == f.doc_links[f.idx]
    IN  IF document_visited(w, vorgangs_nr)
        THEN [w |-> NextRow([w EXCEPT !.obs.skipped = @ \cup {vorgangs_nr}], max_docs),
              emits |-> {}, doc |-> None]
        ELSE
        LET w1 == [w EXCEPT !.visited_documents = @ \cup {vorgangs_nr},
                            !.obs.doc_activations[vorgangs_nr] = @ + 1]
        IN  IF ~out.clicked
            THEN [w |-> NextRow([w1 EXCEPT !.obs.failed = @ \cup {vorgangs_nr}], max_docs),
                  emits |-> {}, doc |-> None]
            ELSE
            LET document_frame == refresh_document_frame(out.frames)
                doc == extract_document_content(out.frames, document_frame,
                                                vorgangs_nr, f.cat, f.cat)
                w2 == [w1 EXCEPT !.document_frame = document_frame,
                                 !.obs.extractions[vorgangs_nr] = @ + 1]
                saved == IF doc = None THEN [raised |-> FALSE, emits |-> {}]
                         ELSE save_document(doc, config_vin, sinks)
                w3 == IF doc = None THEN w2
                      ELSE [w2 EXCEPT !.obs.saves[vorgangs_nr] = @ + 1,
                                      !.obs.produced = @ \cup {doc}]
            IN  IF saved.raised
                THEN \* caught at line 521: the function returns 0
                     [w |-> SetTop(w3, [f EXCEPT !.documents_extracted = 0, !.pc = "subs"]),
                      emits |-> {}, doc |-> doc]
                ELSE
                LET w4 == IF doc = None THEN w3
                          ELSE SetTop([w3 EXCEPT !.stats.documents_extracted = @ + 1],
                                      [f EXCEPT !.count = @ + 1])
                    w5 == IF another_link_listed(f)
                          THEN refresh_content_frame(
                                   [w4 EXCEPT !.obs.activations = @ + 1], f.cat, out.refound)
                          ELSE w4
                IN  [w |-> NextRow(w5, max_docs), emits |-> saved.emits, doc |-> doc]

\* crawl_category, lines 266-279, with no children: count the category and return
finish_category(w) ==
    Return([w EXCEPT !.stats.categories_crawled = @ + 1], Head(w.stack).documents_extracted)

\* crawl_category, lines 266-273: the children found by _find_visible_subcategories
\* (none when the query fails), then the first recursive call
find_subcategories(w, children) ==
    LET f == Head(w.stack)
        wq == [w EXCEPT !.obs.queried = @ \cup {f.cat}]
    IN
    IF children = <<>> THEN finish_category(wq)
    ELSE [wq EXCEPT !.stack = <<Activation(children[1]),
                               [f EXCEPT !.pc = "recurse", !.subcategories = children,
                                         !.si = 2]>> \o Tail(w.stack)]

\* crawl_category, lines 271-279: the next recursive call, or the return
next_subcategory(w) ==
    LET f == Head(w.stack) IN
    IF f.si > Len(f.subcategories) THEN finish_category(w)
    ELSE [w EXCEPT !.stack = <<Activation(f.subcategories[f.si]),
                               [f EXCEPT !.si = @ + 1]>> \o Tail(w.stack)]

\* a _worker_crawl_task that takes the categories off its list
worker_crawl_task_consuming(w) ==
    IF w.chunk # <<>>
    THEN [w EXCEPT !.chunk = Tail(@), !.stack = <<Activation(Head(w.chunk))>>]
    ELSE [w EXCEPT !.task = "done"]

\* _worker_crawl_task: the next category of the worker's chunk, or the end
worker_crawl_task(w) ==
    IF w.pos < Len(w.chunk)
    THEN [w EXCEPT !.pos = @ + 1, !.stack = <<Activation(w.chunk[w.pos + 1])>>]
    ELSE [w EXCEPT !.task = "done"]

(***************************************************************************)
(* CrawlerOrchestrator (crawler/orchestrator.py)                           *)
(***************************************************************************)
Orchs == 1..MaxStarts     \* orchestrator objects that can be constructed
WorkerIds == 1..MaxN      \* worker k of the model is worker_id k-1 of the code

\* str.lower() on the VINs of the model
lower(vin) ==
    CASE vin = "WVWZZZ1JZXW000001" -> "wvwzzz1jzxw000001"
      [] vin = "WVWZZZ1JZXW000002" -> "wvwzzz1jzxw000002"
      [] OTHER -> vin

\* a topic name: the text before and after the underscore
DefaultTopic == [prefix |-> "elsa-documents", suffix |-> ""]

\* CrawlerOrchestrator.__init__, line 38: f"elsadocs_{vin.lower()}"
topic_of_orchestrator(vin) == [prefix |-> "elsadocs", suffix |-> lower(vin)]

\* KafkaProducer._topic_for_vin: (vin or "unknown").lower()
topic_for_vin(config_vin) ==
    [prefix |-> "elsadocs", suffix |-> lower(IF config_vin = "" THEN "unknown" ELSE config_vin)]

\* ensure_vin: the configured VIN, or the 17 characters typed at the prompt
ensure_vin(config_vin, typed) == IF config_vin = "" THEN typed ELSE config_vin

\* CrawlerOrchestrator.__init__ has not run yet
NoOrch ==
    [pc |-> "absent", vin |-> "", redis |-> FALSE, kafka |-> FALSE,
     browser |-> "none", contexts |-> 0, opened |-> 0, closed |-> 0,
     spawn_n |-> 0, nworkers |-> 0, all_categories |-> <<>>,
     chunks |-> <<>>, assigned |-> <<>>, summary |-> None,
     cancelled |-> FALSE, cleanups |-> 0, cleanup_raised |-> FALSE]

\* CrawlerOrchestrator.__init__
NewOrch(vin) == [NoOrch EXCEPT !.pc = "created", !.vin = vin]

RECURSIVE SumOver(_, _, _)
SumOver(ws, n, field) ==
    IF n = 0 THEN 0 ELSE ws[n].stats[field] + SumOver(ws, n - 1, field)

\* a summary that leaves the error counters out
get_summary_without_errors(o) ==
    [vin |-> orch[o].vin, workers |-> cfg.max_workers,
     categories_crawled |-> SumOver(wk[o], orch[o].nworkers, "categories_crawled"),
     documents_extracted |-> SumOver(wk[o], orch[o].nworkers, "documents_extracted"),
     errors |-> 0]

\* _get_summary: the element-wise sum over self.workers
get_summary(o) ==
    [vin |-> orch[o].vin, workers |-> cfg.max_workers,
     categories_crawled |-> SumOver(wk[o], orch[o].nworkers, "categories_crawled"),
     documents_extracted |-> SumOver(wk[o], orch[o].nworkers, "documents_extracted"),
     errors |-> SumOver(wk[o], orch[o].nworkers, "errors")]

\* line 76: self.config.max_workers = 1
enforce_single_worker(max_workers) == 1

\* whether the browser and the contexts of an orchestrator are still open; once a
\* cleanup has closed them every call into a page raises
Alive(o) == orch[o].browser # "closed" /\ orch[o].closed = 0

\* outcomes of a fallible call of orchestrator o
OutcomesOf(o) == IF Alive(o) THEN Outcomes ELSE {FALSE}

\* whether a call of orchestrator o that only raises when the page is gone does so
RaisesOf(o) == IF Alive(o) THEN Raises ELSE {TRUE}

\* initialize, lines 55-76: the sinks are connected best-effort (a connected
\* Kafka producer stores the topic it derives from config.vin), the browser is
\* launched, the worker count is overwritten
OrchConnect(o) ==
    /\ orch[o].pc = "created"
    /\ ~orch[o].cancelled
    /\ \E launched \in Outcomes :
         LET redis == env.sinks_up
             kafka == env.sinks_up
             topic == IF kafka THEN topic_for_vin(cfg.vin) ELSE cfg.kafka_topic
         IN
         IF launched
         THEN /\ orch' = [orch EXCEPT ![o].pc = "login", ![o].redis = redis,
                                      ![o].kafka = kafka, ![o].browser = "open"]
              /\ cfg' = [cfg EXCEPT !.max_workers = enforce_single_worker(@),
                                    !.kafka_topic = topic]
              /\ Fault(FALSE)
         ELSE /\ orch' = [orch EXCEPT ![o].pc = "failed_init", ![o].redis = redis,
                                      ![o].kafka = kafka]
              /\ cfg' = [cfg EXCEPT !.kafka_topic = topic]
              /\ Fault(TRUE)
    /\ UNCHANGED <<api, reqs, cli, wk, sink, fx>>

\* initialize, lines 78-113: the login, the VIN, the fieldsets (best-effort), the
\* manual section and the session export; then range(self.config.max_workers)
OrchLogin(o) ==
    /\ orch[o].pc = "login"
    /\ ~orch[o].cancelled
    /\ \E ok \in OutcomesOf(o) :
         /\ orch' = [orch EXCEPT ![o].pc = IF ok THEN "spawn" ELSE "failed_init",
                                 ![o].spawn_n = IF ok THEN cfg.max_workers ELSE @]
         /\ Fault(~ok /\ Alive(o))
    /\ UNCHANGED <<cfg, api, reqs, cli, wk, sink, fx>>

\* initialize, lines 113-130: one pass of the worker loop; Worker.initialize raises
\* when a step fails, and returns whether or not a navigation frame was found.
\* After the last pass initialize returns and crawl_all runs up to its first await.
OrchSpawnWorker(o) ==
    /\ orch[o].pc = "spawn"
    /\ ~orch[o].cancelled
    /\ orch[o].nworkers < orch[o].spawn_n
    /\ \E ok \in OutcomesOf(o), nav \in Outcomes :
         LET k == orch[o].nworkers + 1 IN
         /\ Fault((~ok \/ ~nav) /\ Alive(o))
         /\ IF ok
            THEN /\ wk' = [wk EXCEPT ![o][k] = [NewWorker EXCEPT !.exists = TRUE,
                                                                 !.vin = orch[o].vin,
                                                                 !.navigation_frame = nav]]
                 /\ orch' = [orch EXCEPT ![o].nworkers = k, ![o].contexts = @ + 1,
                                         ![o].opened = @ + 1,
                                         ![o].pc = IF k = orch[o].spawn_n
                                                   THEN "collecting" ELSE "spawn"]
            ELSE /\ wk' = wk
                 /\ orch' = [orch EXCEPT ![o].opened = @ + 1, ![o].pc = "failed_init"]
    /\ UNCHANGED <<cfg, api, reqs, cli, sink, fx>>

\* the worker tasks created by crawl_all, lines 156-161
start_tasks(ws, assigned) ==
    [k \in WorkerIds |->
        IF k \in DOMAIN assigned
        THEN [ws[k] EXCEPT !.chunk = assigned[k], !.pos = 0, !.task = "running"]
        ELSE ws[k]]

\* crawl_all, lines 143-163: the category list of worker 0, the partition, the tasks
CrawlAllDistribute(o) ==
    /\ orch[o].pc = "collecting"
    /\ ~orch[o].cancelled
    /\ \E raises \in RaisesOf(o), rendered \in Outcomes :
         LET cats == IF wk[o][1].navigation_frame /\ rendered
                     THEN collect_all_categories(env.tree) ELSE <<>>
             chunks == distribute_categories(cats, cfg.max_workers)
             assigned == zip_workers_chunks(orch[o].nworkers, chunks)
         IN  /\ Fault((raises \/ ~rendered) /\ Alive(o))
             /\ IF raises /\ wk[o][1].navigation_frame
                THEN orch' = [orch EXCEPT ![o].pc = "failed_crawl"] /\ wk' = wk
                ELSE IF cats = <<>>
                THEN /\ orch' = [orch EXCEPT ![o].pc = "crawled",
                                             ![o].summary = get_summary(o)]
                     /\ wk' = wk
                ELSE /\ orch' = [orch EXCEPT ![o].pc = "gathering",
                                             ![o].all_categories = cats,
                                             ![o].chunks = chunks, ![o].assigned = assigned]
                     /\ wk' = [wk EXCEPT ![o] = start_tasks(wk[o], assigned)]
    /\ UNCHANGED <<cfg, api, reqs, cli, sink, fx>>

\* a worker task of a running gather that was not cancelled
Running(o, w) ==
    /\ orch[o].pc = "gathering"
    /\ ~orch[o].cancelled
    /\ wk[o][w].task = "running"

\* _worker_crawl_task between two categories
TaskStep(o, w) ==
    /\ Running(o, w)
    /\ wk[o][w].stack = <<>>
    /\ wk' = [wk EXCEPT ![o][w] = worker_crawl_task(wk[o][w])]
    /\ UNCHANGED <<env, cfg, api, reqs, cli, orch, sink, fx>>

\* _refresh_content_frame, lines 199-211: a frame is the content frame only if
\* one of its table rows carries a document number (\d+/\d+). A listing with
\* rows is found unless the page misbehaves; a listing without rows is found
\* only if the page misbehaves (another frame still shows a numbered row).
listing_frame_found(o, cat, as_expected) ==
    IF env.tree.docs[cat] # <<>> THEN as_expected
    ELSE Alive(o) /\ ~as_expected

\* crawl_category up to the listing
CrawlCategory(o, w) ==
    /\ Running(o, w)
    /\ wk[o][w].stack # <<>>
    /\ Head(wk[o][w].stack).pc = "entry"
    /\ \E clicked \in OutcomesOf(o), raises \in RaisesOf(o), found \in OutcomesOf(o),
          read \in OutcomesOf(o) :
         /\ wk' = [wk EXCEPT ![o][w] =
                     crawl_category(wk[o][w],
                         [clicked |-> clicked /\ wk[o][w].navigation_frame,
                          raises |-> raises,
                          found |-> listing_frame_found(o, Head(wk[o][w].stack).cat, found),
                          rows |-> IF read THEN env.tree.docs[Head(wk[o][w].stack).cat]
                                   ELSE <<>>])]
         /\ Fault((~clicked \/ raises \/ ~found \/ ~read) /\ Alive(o))
    /\ UNCHANGED <<cfg, api, reqs, cli, orch, sink, fx>>

\* one row of the document loop
ExtractRow(o, w) ==
    /\ Running(o, w)
    /\ wk[o][w].stack # <<>>
    /\ Head(wk[o][w].stack).pc = "docs"
    /\ \E clicked \in OutcomesOf(o), frames \in DetailFrames, refound \in OutcomesOf(o),
          redis_ok \in SinkOutcomes, kafka_ok \in SinkOutcomes :
         LET r == extract_row(wk[o][w],
                      [clicked |-> clicked, frames |-> frames, refound |-> refound],
                      cfg.vin, cfg.max_documents_per_category,
                      [redis |-> orch[o].redis, kafka |-> orch[o].kafka,
                       redis_ok |-> redis_ok, kafka_ok |-> kafka_ok])
         IN  /\ wk' = [wk EXCEPT ![o][w] = r.w]
             /\ sink' = sink \cup r.emits
             /\ Fault((~clicked \/ frames # IdealFrames \/ ~refound) /\ Alive(o))
    /\ UNCHANGED <<cfg, api, reqs, cli, orch, fx>>

\* the children of the category, and the first recursive call
FindSubcategories(o, w) ==
    /\ Running(o, w)
    /\ wk[o][w].stack # <<>>
    /\ Head(wk[o][w].stack).pc = "subs"
    /\ \E ok \in OutcomesOf(o) :
         /\ wk' = [wk EXCEPT ![o][w] =
                     find_subcategories(wk[o][w],
                         IF ok /\ wk[o][w].navigation_frame
                         THEN visible_subcategories(env.tree, Head(wk[o][w].stack).cat)
                         ELSE <<>>)]
         /\ Fault(~ok /\ Alive(o))
    /\ UNCHANGED <<cfg, api, reqs, cli, orch, sink, fx>>

\* the next recursive call, or the return of crawl_category
NextSubcategory(o, w) ==
    /\ Running(o, w)
    /\ wk[o][w].stack # <<>>
    /\ Head(wk[o][w].stack).pc = "recurse"
    /\ wk' = [wk EXCEPT ![o][w] = next_subcategory(wk[o][w])]
    /\ UNCHANGED <<env, cfg, api, reqs, cli, orch, sink, fx>>

\* crawl_all, lines 163-167: gather has returned, the summary is built
CrawlAllFinish(o) ==
    /\ orch[o].pc = "gathering"
    /\ ~orch[o].cancelled
    /\ \A k \in DOMAIN orch[o].assigned : wk[o][k].task = "done"
    /\ orch' = [orch EXCEPT ![o].pc = "crawled", ![o].summary = get_summary(o)]
    /\ UNCHANGED <<env, cfg, api, reqs, cli, wk, sink, fx>>

\* cleanup: the contexts, the browser, Kafka, Redis, in this order; the first
\* close that raises ends it.  fail_at: which close raises (0: none)
cleanup(oc, fail_at) ==
    LET n == oc.contexts
        steps == n + (IF oc.browser # "none" THEN 1 ELSE 0)
                   + (IF oc.kafka THEN 1 ELSE 0) + (IF oc.redis THEN 1 ELSE 0)
        done == IF fail_at = 0 \/ fail_at > steps THEN steps ELSE fail_at - 1
        b == IF oc.browser # "none" THEN 1 ELSE 0
        kf == IF oc.kafka THEN 1 ELSE 0
    IN  [oc EXCEPT !.closed = Min(done, n),
                   !.browser = IF oc.browser # "none" /\ done >= n + 1 THEN "closed" ELSE @,
                   !.kafka = IF oc.kafka /\ done >= n + b + 1 THEN FALSE ELSE @,
                   !.redis = IF oc.redis /\ done >= n + b + kf + 1 THEN FALSE ELSE @,
                   !.cleanups = @ + 1,
                   !.cleanup_raised = (done < steps)]

\* the closes of a cleanup that can raise
FailPoints(oc) ==
    IF ~MayFail THEN {0}
    ELSE 0..(oc.contexts + (IF oc.browser # "none" THEN 1 ELSE 0)
               + (IF oc.kafka THEN 1 ELSE 0) + (IF oc.redis THEN 1 ELSE 0))

(***************************************************************************)
(* cli/main.py main(): async with CrawlerOrchestrator(...) as orchestrator *)
(***************************************************************************)
\* what the user types when main asks for the VIN
PromptedVins == {"WVWZZZ1JZXW000001"}

\* main, lines 30-61: credentials, VIN, the orchestrator is constructed
MainStart ==
    /\ cli.pc = "start"
    /\ orch[1].pc = "absent"
    /\ \E typed \in PromptedVins :
         LET vin == ensure_vin(cfg.vin, typed) IN
         /\ orch' = [orch EXCEPT ![1] = NewOrch(vin)]
         /\ cfg' = [cfg EXCEPT !.kafka_topic = topic_of_orchestrator(vin)]
    /\ cli' = [cli EXCEPT !.pc = "running"]
    /\ UNCHANGED <<env, api, reqs, wk, sink, fx>>

\* __aenter__ raised: the with-block is not entered, __aexit__ does not run
MainInitFailed ==
    /\ cli.pc = "running"
    /\ orch[1].pc = "failed_init"
    /\ cli' = [cli EXCEPT !.pc = "exit", !.code = 1]
    /\ UNCHANGED <<env, cfg, api, reqs, orch, wk, sink, fx>>

\* the with-block ends, by return or by exception: __aexit__ runs cleanup
MainExit ==
    /\ cli.pc = "running"
    /\ orch[1].pc \in {"crawled", "failed_crawl"}
    /\ \E fail_at \in FailPoints(orch[1]) :
         LET oc == cleanup(orch[1], fail_at) IN
         /\ orch' = [orch EXCEPT ![1] = [oc EXCEPT !.pc = "closed"]]
         /\ cli' = [cli EXCEPT !.pc = "exit",
                               !.code = IF orch[1].pc = "crawled" /\ ~oc.cleanup_raised
                                        THEN 0 ELSE 1]
         /\ Fault(fail_at # 0)
    /\ UNCHANGED <<cfg, api, reqs, wk, sink, fx>>

\* the steps of an orchestrator and of its workers
Core ==
    \E o \in Orchs :
        \/ OrchConnect(o)
        \/ OrchLogin(o)
        \/ OrchSpawnWorker(o)
        \/ CrawlAllDistribute(o)
        \/ CrawlAllFinish(o)
        \/ \E w \in WorkerIds :
              \/ TaskStep(o, w)
              \/ CrawlCategory(o, w)
              \/ ExtractRow(o, w)
              \/ FindSubcategories(o, w)
              \/ NextSubcategory(o, w)

Vins == {"WVWZZZ1JZXW000001", "WVWZZZ1JZXW000002"}

NoApi == [is_running |-> FALSE, orchestrator |-> 0, crawler_task |-> 0]

NoReqs == [r \in {} |-> 0]

NoFx == [op |-> "none"]

\* the process as started from the command line
Init ==
    /\ env \in [tree : Trees, reliable : BOOLEAN, sinks_up : BOOLEAN, faults : {0}]
    /\ cfg \in [max_workers : 1..MaxN, vin : {"", "WVWZZZ1JZXW000001"},
                has_credentials : {TRUE},
                max_documents_per_category : {MaxDocsPerCategory},
                kafka_topic : {DefaultTopic}]
    /\ api = NoApi
    /\ reqs = NoReqs
    /\ cli = [pc |-> "start", code |-> 0, requested |-> cfg.max_workers]
    /\ orch = [o \in Orchs |-> NoOrch]
    /\ wk = [o \in Orchs |-> [w \in WorkerIds |-> NewWorker]]
    /\ sink = {}
    /\ fx = NoFx

Next ==
    \/ MainStart
    \/ MainInitFailed
    \/ MainExit
    \/ Core

Spec == Init /\ [][Next]_vars

\* a run on a tree whose discovery lists an ancestor again, or on the nested
\* tree, for one VIN setting
InitFair ==
    /\ Init
    /\ env.tree \in {TreeLoop, TreeNested}
    /\ cfg.vin = ""

\* that run when the event loop goes on running whatever can run
SpecFair == InitFair /\ [][Next]_vars /\ WF_vars(Next)

(***************************************************************************)
(* api/routes.py: the module state _is_running, _orchestrator, _crawler_task *)
(* and the handlers start_crawler and stop_crawler.  A crawl task and the  *)
(* orchestrator it constructs share one index.                             *)
(***************************************************************************)
Starts == 1..MaxStarts

NoReq == [pc |-> "none", vin |-> ""]

\* asyncio.create_task(run_crawler()): the task exists, its body has not run
ScheduledTask(vin) == [NoOrch EXCEPT !.pc = "scheduled", !.vin = vin]

\* the tasks created so far
Created == {o \in Orchs : orch[o].pc # "absent"}

\* the index of the next task
NextTask == Cardinality(Created) + 1

\* whether the task's coroutine is suspended inside initialize or crawl_all
InFlight(o) == orch[o].pc \in {"created", "login", "spawn", "collecting", "gathering"}

\* whether initialize or crawl_all has returned or raised
Ended(o) == orch[o].pc \in {"crawled", "failed_init", "failed_crawl"}

\* StartCrawlerRequest.vin
RequestVins == {"WVWZZZ1JZXW000002"}

\* line 115: if _is_running
already_running(is_running) == is_running

\* start_crawler, lines 113-123: the running test, the request written into the
\* shared config, then ensure_credentials, which suspends the handler only when
\* the config holds no credentials and the user is asked; lines 125-155 follow
\* at once otherwise
StartCrawler(r) ==
    /\ reqs[r].pc = "none"
    /\ \A q \in Starts : q < r => reqs[q].pc # "none"
    /\ \E vin \in RequestVins, max_workers \in 1..MaxN :
         LET req == [pc |-> "none", vin |-> vin] IN
         IF already_running(api.is_running)
         THEN /\ reqs' = [reqs EXCEPT ![r] = [req EXCEPT !.pc = "rejected"]]
              /\ UNCHANGED <<cfg, api, orch>>
         ELSE /\ cfg' = [cfg EXCEPT !.vin = vin, !.max_workers = max_workers]
              /\ IF cfg.has_credentials
                 THEN /\ reqs' = [reqs EXCEPT ![r] = [req EXCEPT !.pc = "accepted"]]
                      /\ api' = [api EXCEPT !.is_running = TRUE, !.crawler_task = NextTask]
                      /\ orch' = [orch EXCEPT ![NextTask] = ScheduledTask(vin)]
                 ELSE /\ reqs' = [reqs EXCEPT ![r] =
                                     [req EXCEPT !.pc = "awaiting_credentials"]]
                      /\ UNCHANGED <<api, orch>>
    /\ fx' = NoFx
    /\ UNCHANGED <<env, cli, wk, sink>>

\* start_crawler, lines 125-155, once the credentials were entered: the flag is
\* set and the crawl task created
StartCrawlerResume(r) ==
    /\ reqs[r].pc = "awaiting_credentials"
    /\ reqs' = [reqs EXCEPT ![r].pc = "accepted"]
    /\ api' = [api EXCEPT !.is_running = TRUE, !.crawler_task = NextTask]
    /\ orch' = [orch EXCEPT ![NextTask] = ScheduledTask(reqs[r].vin)]
    /\ fx' = NoFx
    /\ UNCHANGED <<env, cfg, cli, wk, sink>>

\* run_crawler, lines 137-139: the orchestrator is constructed and bound to the
\* module's _orchestrator; initialize runs up to its first await
RunCrawlerBegin(o) ==
    /\ orch[o].pc = "scheduled"
    /\ ~orch[o].cancelled
    /\ orch' = [orch EXCEPT ![o] = NewOrch(orch[o].vin)]
    /\ cfg' = [cfg EXCEPT !.kafka_topic = topic_of_orchestrator(orch[o].vin)]
    /\ api' = [api EXCEPT !.orchestrator = o]
    /\ UNCHANGED <<env, reqs, cli, wk, sink, fx>>

\* a task cancelled before its first step never enters run_crawler's try block
RunCrawlerNeverRan(o) ==
    /\ orch[o].pc = "scheduled"
    /\ orch[o].cancelled
    /\ orch' = [orch EXCEPT ![o].pc = "closed"]
    /\ UNCHANGED <<env, cfg, api, reqs, cli, wk, sink, fx>>

\* run_crawler, lines 141-146: initialize or crawl_all returned or raised, or the
\* task was cancelled at the await it was suspended in; the flag is cleared and
\* cleanup is run on the orchestrator the module's _orchestrator names
RunCrawlerFinally(o) ==
    /\ Ended(o) \/ (orch[o].cancelled /\ InFlight(o))
    /\ \E fail_at \in FailPoints(orch[api.orchestrator]) :
         LET t == api.orchestrator
             cleaned == [orch EXCEPT ![t] = cleanup(orch[t], fail_at)]
         IN  /\ orch' = [cleaned EXCEPT ![o].pc = "closed"]
             /\ Fault(fail_at # 0)
    /\ api' = [api EXCEPT !.is_running = FALSE]
    /\ UNCHANGED <<cfg, reqs, cli, wk, sink, fx>>

\* whether a crawl is running: a start request was accepted and the task it
\* created has neither ended nor been cancelled
CrawlRunning == \E o \in Orchs : orch[o].pc \notin {"absent", "closed"} /\ ~orch[o].cancelled

\* stop_crawler: rejected when the flag is clear; otherwise the task is cancelled,
\* cleanup is run on the module's _orchestrator and the flag is cleared
StopCrawler ==
    /\ \E fail_at \in (IF api.orchestrator = 0 THEN {0}
                       ELSE FailPoints(orch[api.orchestrator])) :
         IF ~api.is_running
         THEN UNCHANGED <<api, orch, env>>
         ELSE LET t == api.crawler_task
                  g == api.orchestrator
                  cancelled == IF t # 0 /\ orch[t].pc # "closed"
                               THEN [orch EXCEPT ![t].cancelled = TRUE] ELSE orch
                  cleaned == IF g # 0
                             THEN [cancelled EXCEPT ![g] = cleanup(cancelled[g], fail_at)]
                             ELSE cancelled
              IN  /\ orch' = cleaned
                  /\ Fault(fail_at # 0)
                  /\ api' = [api EXCEPT !.is_running = (fail_at # 0 /\ g # 0 /\ @)]
    /\ fx' = [op |-> "stop", rejected |-> ~api.is_running, running |-> CrawlRunning]
    /\ UNCHANGED <<cfg, reqs, cli, wk, sink>>

\* CrawlerStatus(is_running=False): the other fields at their defaults
StatusNotRunning ==
    [is_running |-> FALSE, current_vin |-> None, num_workers |-> 0, stats |-> NewStats]

\* get_status, lines 69-96: not running unless the flag is set and the module's
\* _orchestrator is bound; otherwise the VIN of that orchestrator and the sums
\* over its workers
get_status ==
    IF ~api.is_running \/ api.orchestrator = 0
    THEN StatusNotRunning
    ELSE LET g == api.orchestrator IN
         [is_running |-> TRUE, current_vin |-> orch[g].vin,
          num_workers |-> cfg.max_workers,
          stats |-> [categories_crawled |->
                         SumOver(wk[g], orch[g].nworkers, "categories_crawled"),
                     documents_extracted |->
                         SumOver(wk[g], orch[g].nworkers, "documents_extracted"),
                     errors |-> SumOver(wk[g], orch[g].nworkers, "errors")]]

\* GET /status: the handler has no await, it answers from the state as it is
GetStatus ==
    /\ fx' = [op |-> "status", response |-> get_status]
    /\ UNCHANGED <<env, cfg, api, reqs, cli, orch, wk, sink>>

\* the server process with the config singleton as loaded from the environment
InitApi ==
    /\ env = [tree |-> TreePair, reliable |-> TRUE, sinks_up |-> TRUE, faults |-> 0]
    /\ cfg \in [max_workers : {MaxN}, vin : {""}, has_credentials : BOOLEAN,
                max_documents_per_category : {MaxDocsPerCategory},
                kafka_topic : {DefaultTopic}]
    /\ api = NoApi
    /\ reqs = [r \in Starts |-> NoReq]
    /\ cli = [pc |-> "none", code |-> 0, requested |-> 0]
    /\ orch = [o \in Orchs |-> NoOrch]
    /\ wk = [o \in Orchs |-> [w \in WorkerIds |-> NewWorker]]
    /\ sink = {}
    /\ fx = NoFx

\* start requests and the crawl tasks they create
NextApi ==
    \/ \E r \in Starts : StartCrawler(r) \/ StartCrawlerResume(r)
    \/ \E o \in Orchs : RunCrawlerBegin(o) \/ RunCrawlerFinally(o)
    \/ Core

SpecApi == InitApi /\ [][NextApi]_vars

\* the start requests of a server that also receives stop requests
StopStarts == 1..MaxStopStarts

\* start, stop and status requests and the crawl tasks
NextStop ==
    \/ \E r \in StopStarts : StartCrawler(r) \/ StartCrawlerResume(r)
    \/ \E o \in Orchs : RunCrawlerBegin(o) \/ RunCrawlerNeverRan(o) \/ RunCrawlerFinally(o)
    \/ StopCrawler
    \/ GetStatus
    \/ Core

SpecStop == InitApi /\ [][NextStop]_vars

(***************************************************************************)
(* DocumentExtractor._try_extract_from_frame applied to one frame, for     *)
(* every frame                                                             *)
(***************************************************************************)
InitGate ==
    /\ env = [tree |-> TreePair, reliable |-> TRUE, sinks_up |-> TRUE, faults |-> 0]
    /\ cfg = [max_workers |-> 1, vin |-> "", has_credentials |-> TRUE,
              max_documents_per_category |-> MaxDocsPerCategory,
              kafka_topic |-> DefaultTopic]
    /\ api = NoApi
    /\ reqs = NoReqs
    /\ cli = [pc |-> "none", code |-> 0, requested |-> 0]
    /\ orch = [o \in Orchs |-> NoOrch]
    /\ wk = [o \in Orchs |-> [w \in WorkerIds |-> NewWorker]]
    /\ sink = {}
    /\ fx \in [op : {"gate"}, frame : Frames, done : {FALSE}, result : {None}]

\* one call of _try_extract_from_frame
TryExtractFromFrame ==
    /\ fx.op = "gate"
    /\ ~fx.done
    /\ fx' = [fx EXCEPT !.done = TRUE, !.result = try_extract_from_frame(fx.frame)]
    /\ UNCHANGED <<env, cfg, api, reqs, cli, orch, wk, sink>>

NextGate == TryExtractFromFrame

SpecGate == InitGate /\ [][NextGate]_vars

(***************************************************************************)
(* VehicleHistoryExtractor.extract_complete_history                        *)
(* (extractors/vehicle_history.py) on a history table with some rows       *)
(***************************************************************************)
\* a row of the table: one of the three entry types, a type the extractor
\* does not know, or a row whose reading raises
RowKinds == {"Digitaler Serviceplan", "Beanstandung", "Rechnung", "unknown", "raises"}

HistoryTables == UNION {[1..n -> RowKinds] : n \in 0..MaxRows}

\* _extract_all_entries: one entry or None per row; [] when listing the rows raises
extract_all_entries(rows, listing_raises) ==
    IF listing_raises THEN <<>>
    ELSE [i \in DOMAIN rows |->
            IF rows[i] \in {"unknown", "raises"} THEN None
            ELSE [entry_type |-> rows[i], row |-> i]]

RECURSIVE NotNone(_)
\* [e for e in entries if e is not None]
NotNone(entries) ==
    IF entries = <<>> THEN <<>>
    ELSE (IF Head(entries) = None THEN <<>> ELSE <<Head(entries)>>) \o NotNone(Tail(entries))

\* extract_complete_history, lines 40-77: a RuntimeError when the page is
\* missing or the history cannot be opened or expanded, a VehicleHistory otherwise
extract_complete_history(rows, opening_raises, listing_raises) ==
    IF opening_raises THEN [raised |-> TRUE]
    ELSE LET entries == extract_all_entries(rows, listing_raises)
             total == Len(entries)
             successful == Len(NotNone(entries))
             failed == total - successful
         IN  [raised |-> FALSE,
              extraction_status |-> IF failed = 0 THEN "complete" ELSE "partial",
              total_entries |-> total, successful_entries |-> successful,
              failed_entries |-> failed, entries |-> NotNone(entries)]

InitHistory ==
    /\ env = [tree |-> TreePair, reliable |-> TRUE, sinks_up |-> TRUE, faults |-> 0]
    /\ cfg = [max_workers |-> 1, vin |-> "", has_credentials |-> TRUE,
              max_documents_per_category |-> MaxDocsPerCategory,
              kafka_topic |-> DefaultTopic]
    /\ api = NoApi
    /\ reqs = NoReqs
    /\ cli = [pc |-> "none", code |-> 0, requested |-> 0]
    /\ orch = [o \in Orchs |-> NoOrch]
    /\ wk = [o \in Orchs |-> [w \in WorkerIds |-> NewWorker]]
    /\ sink = {}
    /\ fx \in [op : {"history"}, rows : HistoryTables, opening_raises : BOOLEAN,
                listing_raises : BOOLEAN, done : {FALSE}, result : {None}]

\* one call of extract_complete_history
ExtractCompleteHistory ==
    /\ fx.op = "history"
    /\ ~fx.done
    /\ fx' = [fx EXCEPT !.done = TRUE,
                        !.result = extract_complete_history(
                                       fx.rows, fx.opening_raises, fx.listing_raises)]
    /\ UNCHANGED <<env, cfg, api, reqs, cli, orch, wk, sink>>

NextHistory == ExtractCompleteHistory

SpecHistory == InitHistory /\ [][NextHistory]_vars

(***************************************************************************)
(* AuthHandler.wait_for_login (auth/credentials.py): the loop that fills   *)
(* in the credentials and the one-time code.  The page shows what it       *)
(* shows; any call on the page may raise.                                  *)
(***************************************************************************)
\* where the page is: at the identity provider, at a login page of the
\* application (/isam/), or in the application
LoginUrls == {"idp", "elsaweb/isam", "elsaweb"}

\* the call of one round of the loop that raises, if any
LoginFaults == {"none", "fill", "after_fill", "click", "otp", "after_otp", "wait"}

\* what the page does in one round of the loop
LoginOutcomes ==
    [form_visible : BOOLEAN, button_visible : BOOLEAN, otp_visible : BOOLEAN,
     raises : LoginFaults, url : LoginUrls, ticks : 1..2]

\* a success test that looks at the address only
login_done_by_url(totp_submitted, url) == url = "elsaweb"

\* line 79: totp_submitted and "elsaweb" in url and "/isam/" not in url
login_done(totp_submitted, url) == totp_submitted /\ url = "elsaweb"

\* the locals of wait_for_login at the head of the loop; creds_sent and
\* otp_sent count the submissions, otp_early records a code sent before the
\* credentials, raised the call that raised
NewLogin ==
    [creds_submitted |-> FALSE, totp_started |-> FALSE, totp_submitted |-> FALSE,
     now |-> 0, url |-> "idp", result |-> "running",
     creds_sent |-> 0, otp_sent |-> 0, otp_early |-> FALSE, raised |-> "none"]

\* one round of the loop of lines 67-84, or the TimeoutError of line 86
login_round(st, out) ==
    IF ~(st.now < MaxLoginTime) THEN [st EXCEPT !.result = "timeout"]
    ELSE
    LET \* lines 68-71: _fill_credentials_if_ready and the wait after it
        fills == ~st.creds_submitted /\ out.form_visible
        s1 == IF ~fills THEN st
              ELSE IF out.raises = "fill" THEN [st EXCEPT !.raised = "fill"]
              ELSE [st EXCEPT !.creds_sent = @ + 1,
                              !.creds_submitted = (out.raises # "after_fill"),
                              !.raised = IF out.raises = "after_fill" THEN "after_fill"
                                         ELSE @]
        \* lines 73-74: _start_totp_flow
        clicks == s1.raised = "none" /\ s1.creds_submitted /\ ~s1.totp_started
                  /\ out.button_visible
        s2 == IF ~clicks THEN s1
              ELSE IF out.raises = "click" THEN [s1 EXCEPT !.raised = "click"]
              ELSE [s1 EXCEPT !.totp_started = TRUE]
        \* lines 76-77: _try_submit_totp
        sends == s2.raised = "none" /\ s2.creds_submitted /\ ~s2.totp_submitted
                 /\ out.otp_visible
        s3 == IF ~sends THEN s2
              ELSE IF out.raises = "otp" THEN [s2 EXCEPT !.raised = "otp"]
              ELSE [s2 EXCEPT !.otp_sent = @ + 1,
                              !.otp_early = @ \/ s2.creds_sent = 0,
                              !.totp_submitted = (out.raises # "after_otp"),
                              !.raised = IF out.raises = "after_otp" THEN "after_otp"
                                         ELSE @]
        s4 == [s3 EXCEPT !.url = out.url]
    IN  IF s3.raised # "none" THEN [s3 EXCEPT !.result = "error"]
        ELSE IF login_done(s4.totp_submitted, s4.url) THEN [s4 EXCEPT !.result = "returned"]
        ELSE IF out.raises = "wait" THEN [s4 EXCEPT !.raised = "wait", !.result = "error"]
        ELSE [s4 EXCEPT !.now = @ + out.ticks]

InitLogin ==
    /\ env = [tree |-> TreePair, reliable |-> TRUE, sinks_up |-> TRUE, faults |-> 0]
    /\ cfg = [max_workers |-> 1, vin |-> "", has_credentials |-> TRUE,
              max_documents_per_category |-> MaxDocsPerCategory,
              kafka_topic |-> DefaultTopic]
    /\ api = NoApi
    /\ reqs = NoReqs
    /\ cli = [pc |-> "none", code |-> 0, requested |-> 0]
    /\ orch = [o \in Orchs |-> NoOrch]
    /\ wk = [o \in Orchs |-> [w \in WorkerIds |-> NewWorker]]
    /\ sink = {}
    /\ fx = [op |-> "login", login |-> NewLogin]

\* wait_for_login between two waits
WaitForLogin ==
    /\ fx.op = "login"
    /\ fx.login.result = "running"
    /\ \E out \in LoginOutcomes : fx' = [fx EXCEPT !.login = login_round(fx.login, out)]
    /\ UNCHANGED <<env, cfg, api, reqs, cli, orch, wk, sink>>

NextLogin == WaitForLogin

SpecLogin == InitLogin /\ [][NextLogin]_vars

(***************************************************************************)
(* The two scripts that read the navigation tree, applied to the same      *)
(* document: parseNode of CategoryExtractor.collect_all_categories and the *)
(* script of CrawlerWorker._find_visible_subcategories.  The document has  *)
(* a root list item with a list below it, which the root search of lines   *)
(* 79-95 finds first; the list items below it are the nodes.               *)
(***************************************************************************)
Lis == {"n1", "n2", "n3"}

\* what a list item holds: no link of its own, a link without text, or a link
\* with text whose target is missing, the empty page, a page without a
\* levelCode parameter, or a page with one
LiKinds == {"nolink", "noname", "nohref", "emptyPage", "plain", "level"}

NoLis == [n \in Lis |-> <<>>]

\* the lists below the root: three in a row, a chain, a node with two
\* children, a node with one child and a sibling
DomShapes ==
    {[top |-> <<"n1", "n2", "n3">>, children |-> NoLis],
     [top |-> <<"n1">>, children |-> ("n1" :> <<"n2">>) @@ ("n2" :> <<"n3">>) @@ NoLis],
     [top |-> <<"n1">>, children |-> ("n1" :> <<"n2", "n3">>) @@ NoLis],
     [top |-> <<"n1", "n3">>, children |-> ("n1" :> <<"n2">>) @@ NoLis]}

Doms == {[top |-> sh.top, children |-> sh.children, kind |-> k] :
            sh \in DomShapes, k \in [Lis -> LiKinds]}

\* li.querySelector(':scope > a')
has_link(dom, n) == dom.kind[n] # "nolink"

\* the text of the link, with a leading "image" removed and trimmed
link_name(dom, n) == IF dom.kind[n] \in {"nolink", "noname"} THEN "" ELSE n

\* the levelCode parameter in the link target of a node that has one
LevelCodeOf(n) == CASE n = "n1" -> "c1" [] n = "n2" -> "c2" [] OTHER -> "c3"

\* the empty string as a link target
NoHref == [page |-> "", levelCode |-> ""]

\* link.getAttribute('href') || '': the page addressed and the levelCode parameter
link_href(dom, n) ==
    CASE dom.kind[n] = "emptyPage" -> [page |-> "emptyPage", levelCode |-> ""]
      [] dom.kind[n] = "plain" -> [page |-> "page", levelCode |-> ""]
      [] dom.kind[n] = "level" -> [page |-> "page", levelCode |-> LevelCodeOf(n)]
      [] OTHER -> NoHref

\* href.match(/levelCode=([^&]+)/): the code, or ''
level_code(href) == href.levelCode

\* href.includes('emptyPage')
is_empty_page(href) == href.page = "emptyPage"

\* x || y for strings
Or(x, y) == IF x = "" THEN y ELSE x

RECURSIVE parseNode(_, _, _), parseLis(_, _, _)
\* a parseNode that does not look below a node it leaves out
parseNode_leaving_out_subtree(dom, li, depth) ==
    IF ~has_link(dom, li) THEN <<>>
    ELSE IF link_name(dom, li) = "" THEN <<>>
    ELSE LET href == link_href(dom, li) IN
         IF href # NoHref /\ ~is_empty_page(href)
         THEN <<[id |-> Or(level_code(href), link_name(dom, li)),
                 name |-> link_name(dom, li), url |-> href, depth |-> depth,
                 has_children |-> dom.children[li] # <<>>, li |-> li]>>
              \o parseLis(dom, dom.children[li], depth + 1)
         ELSE <<>>

\* parseNode(li, path, depth), lines 31-77: what it appends to results
parseNode(dom, li, depth) ==
    IF ~has_link(dom, li) THEN <<>>
    ELSE IF link_name(dom, li) = "" THEN <<>>
    ELSE LET href == link_href(dom, li)
             own == IF href # NoHref /\ ~is_empty_page(href)
                    THEN <<[id |-> Or(level_code(href), link_name(dom, li)),
                            name |-> link_name(dom, li), url |-> href, depth |-> depth,
                            has_children |-> dom.children[li] # <<>>, li |-> li]>>
                    ELSE <<>>
         IN  own \o parseLis(dom, dom.children[li], depth + 1)

\* childLis.forEach(childLi => parseNode(childLi, ..., depth))
parseLis(dom, lis, depth) ==
    IF lis = <<>> THEN <<>>
    ELSE parseNode(dom, Head(lis), depth) \o parseLis(dom, Tail(lis), depth)

\* collect_all_categories on the document: the children of the root at depth 1
collect_all_categories_of(dom) == parseLis(dom, dom.top, 1)

RECURSIVE DocumentOrder(_, _)
\* document.querySelectorAll('li') below the root
DocumentOrder(dom, lis) ==
    IF lis = <<>> THEN <<>>
    ELSE <<Head(lis)>> \o DocumentOrder(dom, dom.children[Head(lis)])
         \o DocumentOrder(dom, Tail(lis))

RECURSIVE find_parent_li(_, _, _)
\* lines 345-357: the first list item whose link text is the parent's name
find_parent_li(dom, lis, parent_name) ==
    IF lis = <<>> THEN ""
    ELSE IF has_link(dom, Head(lis)) /\ link_name(dom, Head(lis)) = parent_name
    THEN Head(lis)
    ELSE find_parent_li(dom, Tail(lis), parent_name)

RECURSIVE child_categories(_, _, _)
\* lines 373-418: the loop over the child list items
child_categories(dom, lis, parent) ==
    IF lis = <<>> THEN <<>>
    ELSE LET li == Head(lis)
             href == link_href(dom, li)
             rest == child_categories(dom, Tail(lis), parent)
         IN  IF ~has_link(dom, li) THEN rest
             ELSE IF link_name(dom, li) = "" THEN rest
             ELSE IF is_empty_page(href) THEN rest
             ELSE IF level_code(href) = "" THEN rest
             ELSE <<[id |-> level_code(href), name |-> link_name(dom, li), url |-> href,
                     depth |-> parent.depth + 1,
                     has_children |-> dom.children[li] # <<>>, li |-> li]>> \o rest

\* _find_visible_subcategories(parent) on the document
find_visible_subcategories(dom, parent) ==
    LET parentLi == find_parent_li(dom, DocumentOrder(dom, dom.top), parent.name) IN
    IF parentLi = "" THEN <<>>
    ELSE child_categories(dom, dom.children[parentLi], parent)

InitTree ==
    /\ env = [tree |-> TreePair, reliable |-> TRUE, sinks_up |-> TRUE, faults |-> 0]
    /\ cfg = [max_workers |-> 1, vin |-> "", has_credentials |-> TRUE,
              max_documents_per_category |-> MaxDocsPerCategory,
              kafka_topic |-> DefaultTopic]
    /\ api = NoApi
    /\ reqs = NoReqs
    /\ cli = [pc |-> "none", code |-> 0, requested |-> 0]
    /\ orch = [o \in Orchs |-> NoOrch]
    /\ wk = [o \in Orchs |-> [w \in WorkerIds |-> NewWorker]]
    /\ sink = {}
    /\ fx \in [op : {"tree"}, dom : Doms, last : {"new"}, all_categories : {<<>>},
                parent : {None}, subcategories : {<<>>}]

\* collect_categories: the tree is read once
CollectAllCategories ==
    /\ fx.op = "tree"
    /\ fx.last = "new"
    /\ fx' = [fx EXCEPT !.last = "collect",
                        !.all_categories = collect_all_categories_of(fx.dom)]
    /\ UNCHANGED <<env, cfg, api, reqs, cli, orch, wk, sink>>

\* crawl_category, line 267: the children of a category of the list are read
FindVisibleSubcategories ==
    /\ fx.op = "tree"
    /\ fx.last # "new"
    /\ \E i \in DOMAIN fx.all_categories :
         fx' = [fx EXCEPT !.last = "children",
                          !.parent = fx.all_categories[i],
                          !.subcategories =
                              find_visible_subcategories(fx.dom, fx.all_categories[i])]
    /\ UNCHANGED <<env, cfg, api, reqs, cli, orch, wk, sink>>

NextTree == CollectAllCategories \/ FindVisibleSubcategories

SpecTree == InitTree /\ [][NextTree]_vars

(***************************************************************************)
(* DocumentExtractor.extract_document_content applied to a page with some  *)
(* open frames and a document frame given by the caller, or none           *)
(***************************************************************************)
\* texts of the open frames: short, just long enough and long ones, without
\* phrases, with a marker, and with a marker and the navigation phrases
OpenTexts ==
    {t \in [len : {99, MinDocLen, DocFrameMinLen},
            has : {{}, {"Vorgangs-Nr"}, NavSignature \cup {"Fahrzeug"}}] :
        SumLen(t.has) <= t.len}

OpenFrames == [text : OpenTexts, raises : BOOLEAN]

\* page.frames when extract_document_content is called
OpenFrameLists == UNION {[1..n -> OpenFrames] : n \in 0..MaxFrames}

InitExtract ==
    /\ env = [tree |-> TreePair, reliable |-> TRUE, sinks_up |-> TRUE, faults |-> 0]
    /\ cfg = [max_workers |-> 1, vin |-> "", has_credentials |-> TRUE,
              max_documents_per_category |-> MaxDocsPerCategory,
              kafka_topic |-> DefaultTopic]
    /\ api = NoApi
    /\ reqs = NoReqs
    /\ cli = [pc |-> "none", code |-> 0, requested |-> 0]
    /\ orch = [o \in Orchs |-> NoOrch]
    /\ wk = [o \in Orchs |-> [w \in WorkerIds |-> NewWorker]]
    /\ sink = {}
    /\ fx \in [op : {"extract"}, frames : OpenFrameLists,
                document_frame : OpenFrames \cup {None},
                done : {FALSE}, result : {None}]

\* one call of extract_document_content
ExtractDocumentContent ==
    /\ fx.op = "extract"
    /\ ~fx.done
    /\ fx' = [fx EXCEPT !.done = TRUE,
                        !.result = extract_document_content(
                                       fx.frames, fx.document_frame, "1/1", "A", "A")]
    /\ UNCHANGED <<env, cfg, api, reqs, cli, orch, wk, sink>>

NextExtract == ExtractDocumentContent

SpecExtract == InitExtract /\ [][NextExtract]_vars

(***************************************************************************)
(* A fourth look at the program: the two loops of the worker that classify *)
(* the frames of the page, _detect_frames at initialization and            *)
(* _refresh_content_frame after a navigation, for every list of frames     *)
(***************************************************************************)
\* what the script of the classifier reports for a frame, or that it throws
PageFrames == [hasNavigation : BOOLEAN, hasContent : BOOLEAN, raises : BOOLEAN]

\* page.frames: the frames in the order the page enumerates them
FrameLists == UNION {[1..n -> PageFrames] : n \in 0..MaxFrames}

\* _detect_frames from frame i on; a reference is the frame's position, 0 is None
RECURSIVE detect_frames_from(_, _, _)
detect_frames_from(frames, i, refs) ==
    IF i > Len(frames) THEN refs
    ELSE IF frames[i].raises THEN detect_frames_from(frames, i + 1, refs)
    ELSE LET nav == IF frames[i].hasNavigation THEN i ELSE refs.navigation_frame
             con == IF frames[i].hasContent THEN i ELSE refs.content_frame
         IN  detect_frames_from(frames, i + 1,
                                [navigation_frame |-> nav, content_frame |-> con])

\* _detect_frames: the references of the worker after the loop
detect_frames(frames, refs) == detect_frames_from(frames, 1, refs)

\* the loop of _refresh_content_frame from frame i on
RECURSIVE refresh_from(_, _)
refresh_from(frames, i) ==
    IF i > Len(frames) THEN 0
    ELSE IF frames[i].raises THEN refresh_from(frames, i + 1)
    ELSE IF frames[i].hasContent THEN i
    ELSE refresh_from(frames, i + 1)

\* _refresh_content_frame: the content reference is set to None, then searched
refresh_content_frame_of(frames) == refresh_from(frames, 1)

\* a worker on a page with some frames, before initialize classifies them
InitFrames ==
    /\ env = [tree |-> TreePair, reliable |-> TRUE, sinks_up |-> TRUE, faults |-> 0]
    /\ cfg = [max_workers |-> 1, vin |-> "", has_credentials |-> TRUE,
              max_documents_per_category |-> MaxDocsPerCategory,
              kafka_topic |-> DefaultTopic]
    /\ api = NoApi
    /\ reqs = NoReqs
    /\ cli = [pc |-> "none", code |-> 0, requested |-> 0]
    /\ orch = [o \in Orchs |-> NoOrch]
    /\ wk = [o \in Orchs |-> [w \in WorkerIds |-> NewWorker]]
    /\ sink = {}
    /\ fx \in [op : {"frames"}, frames : FrameLists, last : {"new"},
                navigation_frame : {0}, content_frame : {0}]

\* initialize, line 86: the frames of the page are classified
DetectFrames ==
    /\ fx.op = "frames"
    /\ fx.last = "new"
    /\ LET refs == detect_frames(fx.frames, [navigation_frame |-> fx.navigation_frame,
                                             content_frame |-> fx.content_frame])
       IN  fx' = [fx EXCEPT !.last = "detect",
                            !.navigation_frame = refs.navigation_frame,
                            !.content_frame = refs.content_frame]
    /\ UNCHANGED <<env, cfg, api, reqs, cli, orch, wk, sink>>

\* a navigation has replaced the frames of the page, and the content frame is
\* searched again
RefreshContentFrame ==
    /\ fx.op = "frames"
    /\ fx.last # "new"
    /\ \E frames \in FrameLists :
         fx' = [fx EXCEPT !.last = "refresh", !.frames = frames,
                          !.content_frame = refresh_content_frame_of(frames)]
    /\ UNCHANGED <<env, cfg, api, reqs, cli, orch, wk, sink>>

NextFrames == DetectFrames \/ RefreshContentFrame

SpecFrames == InitFrames /\ [][NextFrames]_vars

(***************************************************************************)
(* Properties of the crawl                                                 *)
(***************************************************************************)
AllWorkers == Orchs \X WorkerIds

\* C1: once crawl_category(C) was called on a worker, whether or not the
\* activation succeeded, a later call crawl_category(C) on that worker returns 0
\* at once: no activation, no extraction, no emission, no counter or visited-set
\* change, and the caller's document count stays as it was.
C1_RepeatedCallIsNoOp ==
    [][\A ow \in AllWorkers :
         LET W == wk[ow[1]][ow[2]]
             V == wk'[ow[1]][ow[2]]
         IN  (/\ W.stack # <<>>
              /\ Head(W.stack).pc = "entry"
              /\ Head(W.stack).cat \in W.obs.called
              /\ V # W)
             => /\ V.ret = 0
                /\ V.stack = Tail(W.stack)
                /\ V.stats = W.stats
                /\ V.visited_categories = W.visited_categories
                /\ V.visited_documents = W.visited_documents
                /\ V.content_frame = W.content_frame
                /\ V.obs.activations = W.obs.activations
                /\ V.obs.doc_activations = W.obs.doc_activations
                /\ V.obs.extractions = W.obs.extractions
                /\ V.obs.saves = W.obs.saves
                /\ sink' = sink]_vars

\* a category whose activation failed was called again and returned at once
C1_Witness ==
    \E ow \in AllWorkers :
        LET W == wk[ow[1]][ow[2]] IN
        /\ W.obs.repeated \cap W.obs.failed # {}
        /\ W.ret = 0

\* C3: every branch-level failure (category activation failure, no content frame
\* after activation, document-link activation failure) adds one to the worker's
\* errors counter, so a summary built after such a failure reports errors > 0.
C3_BranchFailuresCounted ==
    /\ \A ow \in AllWorkers :
          wk[ow[1]][ow[2]].stats.errors >= Cardinality(wk[ow[1]][ow[2]].obs.failed)
    /\ \A o \in Orchs :
          (/\ orch[o].summary # None
           /\ \E w \in WorkerIds : wk[o][w].obs.failed # {})
          => orch[o].summary.errors > 0

\* C7: one worker, the tree [A(children=[A1,A2]), B(children=[])], every UI call
\* succeeding and every category listing one document: the summary of crawl_all
\* has categories_crawled = 3, documents_extracted = 3, errors = 0.
C7_ScenarioCounts ==
    \A o \in Orchs :
        (/\ env.tree = TreeNested
         /\ env.reliable
         /\ orch[o].nworkers = 1
         /\ orch[o].pc = "crawled")
        => /\ orch[o].summary.categories_crawled = 3
           /\ orch[o].summary.documents_extracted = 3
           /\ orch[o].summary.errors = 0

\* the validity gate on a text: long enough, and holding a marker phrase
PassesGate(text) == text.len >= MinDocLen /\ text.has \cap DocMarkers # {}

\* C8: every ExtractedDocument returned by the extractor during a crawl (from the
\* frame hint or from the fallback scan) and every document handed to the sink
\* has content of at least 100 characters that holds a marker phrase.
C8_OutputPassesGate ==
    /\ \A ow \in AllWorkers :
          \A d \in wk[ow[1]][ow[2]].obs.produced : PassesGate(d.content)
    /\ \A e \in sink : PassesGate(e.data.content)

\* the extractor returned documents by both methods, with frames on the page
\* that fail the gate
C8_Witness ==
    \E ow \in AllWorkers :
        LET P == wk[ow[1]][ow[2]].obs.produced IN
        /\ \E d \in P : d.extraction_method = "new"
        /\ \E d \in P : d.extraction_method = "fallback"
        /\ ~env.reliable

\* C10: within one worker each document key has its link activated, is extracted
\* and is saved at most once; a row whose key is already visited is skipped.
C10_KeyProcessedOnce ==
    \A ow \in AllWorkers :
        LET W == wk[ow[1]][ow[2]] IN
        \A k \in Keys :
            /\ W.obs.doc_activations[k] <= 1
            /\ W.obs.extractions[k] <= 1
            /\ W.obs.saves[k] <= 1
            /\ (W.obs.doc_activations[k] = 1) <=> (k \in W.visited_documents)

\* a row was skipped whose key had been activated and extracted before
C10_Witness ==
    \E ow \in AllWorkers :
        LET W == wk[ow[1]][ow[2]] IN
        \E k \in W.obs.skipped :
            W.obs.doc_activations[k] = 1 /\ W.obs.extractions[k] = 1

\* the crawl tasks that were created and have not ended
LiveTasks == {o \in Orchs : orch[o].pc \notin {"absent", "closed"}}

\* C2: at any time at most one crawl task exists that has not ended, and a start
\* request is accepted only when none exists
C2_AtMostOneCrawl == Cardinality(LiveTasks) <= 1

\* the elements of a sequence
Range(seq) == {seq[i] : i \in DOMAIN seq}

\* whether the chunks handed to the workers are pairwise disjoint and cover S
IsPartitionOf(assigned, S) ==
    /\ \A j, k \in DOMAIN assigned : j # k => Range(assigned[j]) \cap Range(assigned[k]) = {}
    /\ UNION {Range(assigned[k]) : k \in DOMAIN assigned} = Range(S)

\* C4: whenever an orchestrator has handed the categories it discovered to its
\* workers, the chunks are pairwise disjoint and every category is in one of them
C4_PartitionCoversS ==
    \A o \in Orchs :
        orch[o].pc \in {"gathering", "crawled"} /\ orch[o].all_categories # <<>>
            => IsPartitionOf(orch[o].assigned, orch[o].all_categories)

\* C5: once initialize has returned, the orchestrator holds as many workers as
\* the configuration asked for
C5_WorkersAsConfigured ==
    cli.pc # "none" /\ orch[1].pc \in {"collecting", "gathering", "crawled"}
        => orch[1].nworkers = cli.requested

\* C6: a crawl configured with 2 workers that discovers 5 categories hands 3 of
\* them to the first worker and 2 to the second
C6_TwoWorkersFiveCategories ==
    /\ cli.requested = 2
    /\ orch[1].pc \in {"gathering", "crawled"}
    /\ Len(orch[1].all_categories) = 5
    => /\ Len(orch[1].assigned) = 2
       /\ Len(orch[1].assigned[1]) = 3
       /\ Len(orch[1].assigned[2]) = 2

\* whether a call of _try_extract_from_frame whose script ran has returned
Evaluated == fx.op = "gate" /\ fx.done /\ ~fx.frame.raises

\* C9 as stated: a frame text is accepted exactly when it has 100 characters or
\* more and contains a marker phrase
C9_AcceptedIffLongAndMarked ==
    Evaluated => (fx.result # None <=> PassesGate(fx.frame.text))

\* C9 amended: a frame text is accepted exactly when it has 100 characters or
\* more, contains a marker phrase and does not contain all three phrases of the
\* navigation frame
C9_AcceptedIffLongMarkedNotNavigation ==
    Evaluated => (fx.result # None <=>
                     /\ PassesGate(fx.frame.text)
                     /\ ~(NavSignature \subseteq fx.frame.text.has))

\* a long text with a marker phrase was rejected for the navigation phrases
C9_Witness ==
    /\ Evaluated
    /\ PassesGate(fx.frame.text)
    /\ NavSignature \subseteq fx.frame.text.has
    /\ fx.result = None

(***************************************************************************)
(* Properties of the summary and of the counters                           *)
(***************************************************************************)
RECURSIVE SumStats(_, _, _)
SumStats(o, ws, field) ==
    IF ws = {} THEN 0
    ELSE LET w == CHOOSE x \in ws : TRUE
         IN  wk[o][w].stats[field] + SumStats(o, ws \ {w}, field)

Counters == {"categories_crawled", "documents_extracted", "errors"}

\* C11: the summary returned by crawl_all carries, for categories_crawled,
\* documents_extracted and errors, the sum of that counter over all workers of
\* the orchestrator as they are when crawling has finished, also when crawl_all
\* returns early because no categories were found.
C11_SummaryIsSumOverWorkers ==
    \A o \in Orchs :
        orch[o].summary # None =>
            \A c \in Counters :
                orch[o].summary[c] = SumStats(o, 1..orch[o].nworkers, c)

C11_Witness ==
    \E o \in Orchs :
        /\ orch[o].summary # None
        /\ orch[o].nworkers >= 1
        /\ orch[o].summary.errors > 0
        /\ orch[o].summary.categories_crawled > 0

\* C12: over the lifetime of a worker none of its three counters
\* (categories_crawled, documents_extracted, errors) ever decreases.
C12_CountersNeverDecrease ==
    [][\A ow \in AllWorkers : \A c \in Counters :
          wk'[ow[1]][ow[2]].stats[c] >= wk[ow[1]][ow[2]].stats[c]]_vars

C12_Witness ==
    \E ow \in AllWorkers :
        /\ wk[ow[1]][ow[2]].stats.categories_crawled > 1
        /\ wk[ow[1]][ow[2]].stats.errors > 0
        /\ wk[ow[1]][ow[2]].task = "running"

(***************************************************************************)
(* Properties of a failed activation and of errors                         *)
(***************************************************************************)
\* the step of worker ow is the first call of crawl_category for a category, and
\* in it _click_category returns False
ActivationFails(ow) ==
    LET W == wk[ow[1]][ow[2]]
        V == wk'[ow[1]][ow[2]]
    IN  /\ W.stack # <<>>
        /\ Head(W.stack).pc = "entry"
        /\ Head(W.stack).cat \notin W.obs.called
        /\ Head(W.stack).cat \in V.obs.not_clicked

\* the step of worker ow returns 0 to its caller and does nothing else: no
\* extraction, no document activation, no query for children, no counter change;
\* the caller's loop (the parent activation or the worker's list) is where it was
ReturnsZeroAtOnce(ow) ==
    LET W == wk[ow[1]][ow[2]]
        V == wk'[ow[1]][ow[2]]
    IN  /\ V.ret = 0
        /\ V.stack = Tail(W.stack)
        /\ V.task = W.task /\ V.pos = W.pos /\ V.chunk = W.chunk
        /\ V.stats = W.stats
        /\ V.visited_documents = W.visited_documents
        /\ V.obs.doc_activations = W.obs.doc_activations
        /\ V.obs.extractions = W.obs.extractions
        /\ V.obs.saves = W.obs.saves
        /\ V.obs.produced = W.obs.produced
        /\ V.obs.queried = W.obs.queried
        /\ sink' = sink

AllCrawled(ow) ==
    LET W == wk[ow[1]][ow[2]] IN
    /\ \A i \in DOMAIN W.chunk : W.chunk[i] \in W.obs.called
    /\ \A p \in W.obs.queried :
          \A i \in DOMAIN visible_subcategories(env.tree, p) :
              visible_subcategories(env.tree, p)[i] \in W.obs.called

WorkingSinks == [redis |-> TRUE, kafka |-> TRUE, redis_ok |-> TRUE, kafka_ok |-> TRUE]

\* the worker of the same crawl before its task starts: logged in, the whole
\* category list assigned to it
ReferenceWorker ==
    [NewWorker EXCEPT !.exists = TRUE, !.navigation_frame = TRUE,
                      !.chunk = collect_all_categories(env.tree),
                      !.task = "running"]

\* the worker's task run to its end with every call on the page succeeding and
\* both sinks connected and working
RECURSIVE RunWithWorkingSinks(_)
RunWithWorkingSinks(w) ==
    IF w.task = "done" THEN w
    ELSE IF w.stack = <<>> THEN RunWithWorkingSinks(worker_crawl_task(w))
    ELSE LET f == Head(w.stack) IN
         CASE f.pc = "entry" ->
                RunWithWorkingSinks(
                    crawl_category(w, [clicked |-> TRUE, raises |-> FALSE,
                                       found |-> env.tree.docs[f.cat] # <<>>,
                                       rows |-> env.tree.docs[f.cat]]))
           [] f.pc = "docs" ->
                RunWithWorkingSinks(
                    extract_row(w, [clicked |-> TRUE, frames |-> IdealFrames,
                                    refound |-> TRUE],
                                cfg.vin, cfg.max_documents_per_category,
                                WorkingSinks).w)
           [] f.pc = "subs" ->
                RunWithWorkingSinks(find_subcategories(w, visible_subcategories(env.tree, f.cat)))
           [] f.pc = "recurse" ->
                RunWithWorkingSinks(next_subcategory(w))

\* C15: with every call on the page succeeding, whatever the sinks do (both
\* unreachable at startup, or any or every Redis and Kafka call failing),
\* crawl_all does not fail and its summary has the categories_crawled and
\* documents_extracted of the same crawl run against connected, working sinks.
C15_SinkFailuresDoNotChangeCounts ==
    \A o \in Orchs :
        env.faults = 0 =>
            /\ orch[o].pc # "failed_crawl"
            /\ (orch[o].summary # None /\ orch[o].all_categories # <<>>) =>
                  LET ref == RunWithWorkingSinks(ReferenceWorker).stats IN
                  /\ orch[o].summary.categories_crawled = ref.categories_crawled
                  /\ orch[o].summary.documents_extracted = ref.documents_extracted

\* a crawl whose sinks were unreachable, or reachable in surroundings where
\* their calls fail, has finished after trying to save a document
C15_Witness ==
    \E o \in Orchs :
        /\ env.faults = 0
        /\ ~env.sinks_up
        /\ ~env.reliable
        /\ orch[o].summary # None
        /\ orch[o].summary.categories_crawled > 0
        /\ \E w \in WorkerIds, k \in Keys : wk[o][w].obs.saves[k] > 0

(***************************************************************************)
(* Properties of cleanup                                                   *)
(***************************************************************************)
\* C16: once cleanup has run on an orchestrator, every browser context, the
\* browser and both sink connections are closed, also when one of the closes
\* raised.
C16_CleanupClosesEverything ==
    \A o \in Orchs :
        orch[o].cleanups > 0 =>
            /\ orch[o].closed = orch[o].contexts
            /\ orch[o].browser \in {"none", "closed"}
            /\ ~orch[o].kafka
            /\ ~orch[o].redis

(***************************************************************************)
(* Properties of stop-crawl and get-status                                 *)
(***************************************************************************)
\* C17: a stop request is rejected exactly when no crawl is running; a stop
\* request that is not rejected leaves the running flag false and no crawl task
\* that can still take a step, and until the next start request is accepted (which
\* the clear flag allows) no worker crawls or emits.
C17_StopEndsTheCrawl ==
    fx.op = "stop" =>
        /\ fx.rejected <=> ~fx.running
        /\ ~fx.rejected => (~api.is_running /\ ~CrawlRunning)

\* the crawls that are running: accepted, and neither ended nor stopped
RunningCrawls == {o \in Orchs : orch[o].pc \notin {"absent", "closed"} /\ ~orch[o].cancelled}

\* C18: whenever a crawl is running, from the acceptance of its start request
\* until it ends or is stopped, get-status answers is_running = true with the
\* VIN of that crawl and with counters equal to the sums over that crawl's
\* workers; when no crawl is running it answers not running.
C18_StatusReportsTheRunningCrawl ==
    IF RunningCrawls = {}
    THEN ~get_status.is_running
    ELSE \A o \in RunningCrawls :
            /\ get_status.is_running
            /\ get_status.current_vin = orch[o].vin
            /\ \A c \in Counters :
                  get_status.stats[c] = SumStats(o, 1..orch[o].nworkers, c)

(***************************************************************************)
(* Properties of a successful activation                                   *)
(***************************************************************************)
\* whether a call of crawl_category for category c is in progress on worker W
InProgress(W, c) == \E i \in DOMAIN W.stack : W.stack[i].cat = c

\* C19: with no call on the page failing, once the call for a category whose
\* activation succeeded has returned, the worker has queried the category's
\* direct children and has passed each of them to crawl_category, also when
\* the category lists no documents.
C19_ChildrenOfActivatedCategoryCrawled ==
    \A ow \in AllWorkers :
        LET W == wk[ow[1]][ow[2]] IN
        env.faults = 0 =>
            \A c \in W.obs.clicked :
                ~InProgress(W, c) =>
                    /\ c \in W.obs.queried
                    /\ \A i \in DOMAIN visible_subcategories(env.tree, c) :
                          visible_subcategories(env.tree, c)[i] \in W.obs.called

\* C20: with no call on the page failing, when no call is in progress on a
\* worker its categories_crawled counts one for every category whose activation
\* succeeded, whatever the category lists: documents, children, or neither.
C20_EveryActivatedCategoryCounted ==
    \A ow \in AllWorkers :
        LET W == wk[ow[1]][ow[2]] IN
        (env.faults = 0 /\ W.stack = <<>>) =>
            W.stats.categories_crawled = Cardinality(W.obs.clicked)

(***************************************************************************)
(* Properties of the category list and of its distribution                 *)
(***************************************************************************)
\* the categories a worker has crawled: activated, their listing found and
\* worked through, their children queried
CrawledBy(W) == W.obs.queried

\* C21: among the workers of one crawl no category is crawled by two of them,
\* and no document key is extracted by two of them.
C21_CategoryCrawledByOneWorker ==
    \A o \in Orchs : \A v, w \in WorkerIds :
        v # w =>
            /\ CrawledBy(wk[o][v]) \cap CrawledBy(wk[o][w]) = {}
            /\ \A k \in Keys :
                  ~(wk[o][v].obs.extractions[k] > 0 /\ wk[o][w].obs.extractions[k] > 0)

\* C22: the list crawl_all partitions among the workers holds top-level
\* categories only (the direct children of the tree root).
C22_OnlyTopLevelPartitioned ==
    \A o \in Orchs :
        /\ Range(orch[o].all_categories) \subseteq Range(env.tree.top)
        /\ \A k \in DOMAIN orch[o].assigned :
              Range(orch[o].assigned[k]) \subseteq Range(env.tree.top)

(***************************************************************************)
(* Properties of the end of a crawl                                        *)
(***************************************************************************)
\* the crawl of orchestrator o is over: its task has run its finally block, or
\* the command-line process has left main
CrawlOver(o) ==
    \/ orch[o].pc = "closed"
    \/ cli.pc = "exit" /\ orch[o].pc # "absent"

\* o holds a sink connection or has launched a browser
HoldsResources(o) == orch[o].redis \/ orch[o].kafka \/ orch[o].browser # "none"

\* C23: a crawl that has acquired resources has run cleanup by the time it is
\* over, whichever way it ended: completion, an exception in initialize or in
\* crawl_all, or cancellation, from the API and from the command line.
C23_CleanupRunsWhenCrawlIsOver ==
    \A o \in Orchs :
        (CrawlOver(o) /\ HoldsResources(o)) => orch[o].cleanups > 0

(***************************************************************************)
(* Properties of the frames                                                *)
(***************************************************************************)
\* C24: a worker whose initialize has returned has a navigation frame; when the
\* classification finds none, initialize raises and the worker is not added.
C24_InitializedWorkerHasNavigationFrame ==
    \A ow \in AllWorkers :
        wk[ow[1]][ow[2]].exists => wk[ow[1]][ow[2]].navigation_frame

FirstNavigation(frames) ==
    IF \E i \in DOMAIN frames : ~frames[i].raises /\ frames[i].hasNavigation
    THEN CHOOSE i \in DOMAIN frames :
            /\ ~frames[i].raises /\ frames[i].hasNavigation
            /\ \A j \in 1..(i - 1) : frames[j].raises \/ ~frames[j].hasNavigation
    ELSE 0

FirstContent(frames) ==
    IF \E i \in DOMAIN frames : ~frames[i].raises /\ frames[i].hasContent
    THEN CHOOSE i \in DOMAIN frames :
            /\ ~frames[i].raises /\ frames[i].hasContent
            /\ \A j \in 1..(i - 1) : frames[j].raises \/ ~frames[j].hasContent
    ELSE 0

\* C26: when several frames satisfy the navigation predicate, or several the
\* content-listing predicate, the classifier keeps the first of them in the
\* order of the page's frames, at initialization and on every refresh of the
\* content frame.
C26_FirstMatchingFrameIsSelected ==
    /\ (fx.op = "frames" /\ fx.last = "detect") =>
          /\ fx.navigation_frame = FirstNavigation(fx.frames)
          /\ fx.content_frame = FirstContent(fx.frames)
    /\ (fx.op = "frames" /\ fx.last = "refresh") =>
          fx.content_frame = FirstContent(fx.frames)

\* the call of crawl_category on top of the stack of W returns 0 in this step
\* because the category was activated and no content frame was found
GivesUpWithoutContentFrame(W, V) ==
    /\ W.stack # <<>>
    /\ Head(W.stack).pc = "entry"
    /\ Head(W.stack).cat \in V.obs.clicked \ W.obs.clicked
    /\ Head(W.stack).cat \in V.obs.failed
    /\ V.content_frame = None
    /\ V.stack = Tail(W.stack)

\* C27: when the classification after a category activation finds no content
\* frame, the worker classifies the frames at least once more before it gives
\* up on the category.
C27_ClassificationIsRetried ==
    [][\A ow \in AllWorkers :
         LET W == wk[ow[1]][ow[2]]
             V == wk'[ow[1]][ow[2]]
         IN  GivesUpWithoutContentFrame(W, V) =>
                 V.obs.refreshes >= W.obs.refreshes + 2]_vars

\* a step of worker W in which a category link was clicked and the call went on
ActivatedAndWentOn(W, V) ==
    /\ V.obs.activations > W.obs.activations
    /\ V.obs.not_clicked = W.obs.not_clicked
    /\ V.obs.raised = W.obs.raised

\* C28: after every category activation, the re-activation that follows a
\* document included, the content-frame reference is dropped and searched
\* again before it is read; no reference found before a click on the page is
\* read after that click.
C28_ContentFrameIsNeverReusedAfterNavigation ==
    /\ [](\A ow \in AllWorkers : wk[ow[1]][ow[2]].obs.stale_reads = 0)
    /\ [][\A ow \in AllWorkers :
            LET W == wk[ow[1]][ow[2]]
                V == wk'[ow[1]][ow[2]]
            IN  ActivatedAndWentOn(W, V) =>
                  /\ V.obs.refreshes - W.obs.refreshes
                       = V.obs.activations - W.obs.activations
                  /\ V.content_frame # None => V.content_frame.at = Navigations(V)]_vars

\* a worker has re-activated a category after a document and then activated
\* another category, whose listing it found
C28_Witness ==
    \E ow \in AllWorkers :
        LET W == wk[ow[1]][ow[2]] IN
        /\ W.obs.activations >= 3
        /\ W.obs.refreshes >= 3
        /\ \E k \in Keys : W.obs.extractions[k] > 0
        /\ W.content_frame # None
        /\ Cardinality(W.obs.clicked) >= 2
        /\ W.content_frame.at = Navigations(W)

(***************************************************************************)
(* Properties of the rows of a listing                                     *)
(***************************************************************************)
\* worker W is at a row of a listing and, in this step, clicks the link of the
\* row's key with success
RowActivated(W, V) ==
    /\ W.stack # <<>>
    /\ Head(W.stack).pc = "docs"
    /\ LET k == Head(W.stack).doc_links[Head(W.stack).idx] IN
       /\ V.obs.doc_activations[k] > W.obs.doc_activations[k]
       /\ k \notin V.obs.failed

\* after the step, worker V is at the next row of the same listing
NextRowRemains(W, V) ==
    /\ V.stack # <<>>
    /\ Head(V.stack).pc = "docs"
    /\ Head(V.stack).cat = Head(W.stack).cat
    /\ Head(V.stack).idx = Head(W.stack).idx + 1

\* C29: for a row that is processed the key is marked visited, then the
\* document link is activated, then the document is extracted, then (only if a
\* document was extracted) it is emitted: a later step never happened without
\* the earlier ones, and a step that fails leaves the earlier ones done. When a
\* document link was activated and another row is processed next, the parent
\* category is activated and the content frame searched again in between.
C29_RowStepsInOrder ==
    /\ [](\A ow \in AllWorkers : \A k \in Keys :
            LET W == wk[ow[1]][ow[2]] IN
            /\ W.obs.doc_activations[k] > 0 => k \in W.visited_documents
            /\ W.obs.extractions[k] <= W.obs.doc_activations[k]
            /\ W.obs.saves[k] <= W.obs.extractions[k]
            /\ W.obs.saves[k] > 0 => W.obs.produced # {}
            /\ k \in W.obs.failed => (k \in W.visited_documents /\ W.obs.extractions[k] = 0))
    /\ [][\A ow \in AllWorkers :
            LET W == wk[ow[1]][ow[2]]
                V == wk'[ow[1]][ow[2]]
            IN  (RowActivated(W, V) /\ NextRowRemains(W, V)) =>
                  /\ V.obs.activations = W.obs.activations + 1
                  /\ V.obs.refreshes = W.obs.refreshes + 1]_vars

\* a worker activated the link of a row, extracted, re-activated the category
\* and stands at the next row
C29_Witness ==
    \E ow \in AllWorkers :
        LET W == wk[ow[1]][ow[2]] IN
        /\ W.stack # <<>>
        /\ Head(W.stack).pc = "docs"
        /\ Head(W.stack).idx >= 2
        /\ W.obs.extractions[Head(W.stack).doc_links[Head(W.stack).idx - 1]] > 0
        /\ W.obs.activations >= 2
        /\ W.obs.refreshes >= 2

\* C30: in each category crawl only the first max_documents_per_category rows
\* of the listing, in the order of the listing, are considered: the row a worker
\* is at, and every row whose link it activates or whose document it extracts,
\* is one of them, and the count of the listing never exceeds the cap.
C30_RowsBeyondTheCapAreSkipped ==
    /\ [](\A ow \in AllWorkers :
            LET W == wk[ow[1]][ow[2]] IN
            \A i \in DOMAIN W.stack :
                /\ W.stack[i].pc = "docs" =>
                      W.stack[i].idx <= Min(Len(W.stack[i].doc_links),
                                            cfg.max_documents_per_category)
                /\ W.stack[i].count <= cfg.max_documents_per_category)
    /\ [][\A ow \in AllWorkers : \A k \in Keys :
            LET W == wk[ow[1]][ow[2]]
                V == wk'[ow[1]][ow[2]]
            IN  (\/ V.obs.doc_activations[k] > W.obs.doc_activations[k]
                 \/ V.obs.extractions[k] > W.obs.extractions[k]
                 \/ k \in V.visited_documents \ W.visited_documents) =>
                  /\ W.stack # <<>>
                  /\ Head(W.stack).pc = "docs"
                  /\ Head(W.stack).idx <= cfg.max_documents_per_category
                  /\ Head(W.stack).doc_links[Head(W.stack).idx] = k]_vars

\* a worker is through with a listing that has more rows than the cap, has
\* extracted from a row within the cap, and has not touched a key listed only
\* beyond the cap
C30_Witness ==
    \E ow \in AllWorkers :
        LET W == wk[ow[1]][ow[2]] IN
        /\ W.stack # <<>>
        /\ Head(W.stack).pc = "subs"
        /\ Len(Head(W.stack).doc_links) > cfg.max_documents_per_category
        /\ Head(W.stack).idx = cfg.max_documents_per_category + 1
        /\ \E i \in 1..cfg.max_documents_per_category :
              W.obs.extractions[Head(W.stack).doc_links[i]] > 0
        /\ \E i \in DOMAIN Head(W.stack).doc_links :
              /\ i > cfg.max_documents_per_category
              /\ Head(W.stack).doc_links[i] \notin W.visited_documents

\* in this step worker W extracts for the row it is at and gets no document
ExtractedNothing(W, V) ==
    /\ W.stack # <<>>
    /\ Head(W.stack).pc = "docs"
    /\ LET k == Head(W.stack).doc_links[Head(W.stack).idx] IN
       /\ V.obs.extractions[k] > W.obs.extractions[k]
       /\ V.obs.saves[k] = W.obs.saves[k]

\* C31: when the extraction for a row yields no document, errors and
\* documents_extracted keep their values, nothing is emitted, and the worker
\* goes on with the next row of the same category if the listing has one
\* within the cap (and ends the listing with its count otherwise).
C31_NoDocumentIsNotAnError ==
    [][\A ow \in AllWorkers :
         LET W == wk[ow[1]][ow[2]]
             V == wk'[ow[1]][ow[2]]
             f == Head(W.stack)
             g == Head(V.stack)
         IN  ExtractedNothing(W, V) =>
               /\ V.stats = W.stats
               /\ sink' = sink
               /\ V.obs.produced = W.obs.produced
               /\ Len(V.stack) = Len(W.stack)
               /\ g.cat = f.cat /\ g.count = f.count /\ g.idx = f.idx + 1
               /\ g.doc_links = f.doc_links
               /\ IF f.idx < Min(Len(f.doc_links), cfg.max_documents_per_category)
                  THEN g.pc = "docs"
                  ELSE g.pc = "subs" /\ g.documents_extracted = f.count]_vars

\* a worker stands at the second row of a listing after the extraction for
\* the first row gave no document, with all counters at zero
C31_Witness ==
    \E ow \in AllWorkers :
        LET W == wk[ow[1]][ow[2]] IN
        /\ W.stack # <<>>
        /\ Head(W.stack).pc = "docs"
        /\ Head(W.stack).idx >= 2
        /\ LET k == Head(W.stack).doc_links[Head(W.stack).idx - 1] IN
           W.obs.extractions[k] > 0 /\ W.obs.saves[k] = 0
        /\ W.stats.errors = 0 /\ W.stats.documents_extracted = 0
        /\ W.obs.produced = {}

(***************************************************************************)
(* Properties of the extractor                                             *)
(***************************************************************************)
\* the text of the frame can be read, has 100 characters or more, a marker
\* phrase, and not all three navigation phrases
ValidText(fr) ==
    /\ ~fr.raises
    /\ fr.text.len >= 100
    /\ fr.text.has \cap DocMarkers # {}
    /\ ~(NavSignature \subseteq fr.text.has)

\* C32: extract_document_content returns the text of the given document frame
\* when that frame is valid; otherwise the text of an open frame whose valid
\* text is longest; never a text with the navigation signature; and no
\* document exactly when neither the given frame nor an open frame is valid.
C32_HintFirstThenLongestValid ==
    (fx.op = "extract" /\ fx.done) =>
        LET hint == fx.document_frame
            open == fx.frames
            valid == {i \in DOMAIN open : ValidText(open[i])}
        IN  /\ (hint # None /\ ValidText(hint)) =>
                  (fx.result # None /\ fx.result.content = hint.text)
            /\ ((hint = None \/ ~ValidText(hint)) /\ valid # {}) =>
                  /\ fx.result # None
                  /\ \E i \in valid :
                        /\ fx.result.content = open[i].text
                        /\ \A j \in valid : open[j].text.len <= open[i].text.len
            /\ fx.result = None <=> ((hint = None \/ ~ValidText(hint)) /\ valid = {})
            /\ fx.result # None => ~(NavSignature \subseteq fx.result.content.has)

\* the given frame is not valid, two open frames are valid with texts of
\* different lengths, the longer one first, and a document was returned
C32_Witness ==
    /\ fx.op = "extract" /\ fx.done
    /\ fx.document_frame # None /\ ~ValidText(fx.document_frame)
    /\ Len(fx.frames) = 2
    /\ ValidText(fx.frames[1]) /\ ValidText(fx.frames[2])
    /\ fx.frames[1].text.len > fx.frames[2].text.len
    /\ fx.result # None

(***************************************************************************)
(* Properties of the category discovery                                    *)
(***************************************************************************)
\* the list items a list of categories was made from
LisOf(cats) == {cats[i].li : i \in DOMAIN cats}

\* C33: the children found for a category by _find_visible_subcategories are
\* found by the same rules as by collect_all_categories: a child list item of
\* the category is returned by the one if and only if it is returned by the
\* other, and with the same id.
C33_ChildDiscoveryAgreesWithRootDiscovery ==
    (fx.op = "tree" /\ fx.last = "children") =>
        LET below == fx.dom.children[fx.parent.li] IN
        \A k \in DOMAIN below :
            /\ below[k] \in LisOf(fx.subcategories) <=> below[k] \in LisOf(fx.all_categories)
            /\ \A i \in DOMAIN fx.subcategories, j \in DOMAIN fx.all_categories :
                  fx.subcategories[i].li = fx.all_categories[j].li =>
                     fx.subcategories[i].id = fx.all_categories[j].id

\* the list item above n, "" for a child of the root
ParentLi(dom, n) ==
    IF \E p \in Lis : \E k \in DOMAIN dom.children[p] : dom.children[p][k] = n
    THEN CHOOSE p \in Lis : \E k \in DOMAIN dom.children[p] : dom.children[p][k] = n
    ELSE ""

RECURSIVE NestingLevel(_, _)
NestingLevel(dom, n) ==
    IF ParentLi(dom, n) = "" THEN 1 ELSE 1 + NestingLevel(dom, ParentLi(dom, n))

RECURSIVE AncestorsOf(_, _)
AncestorsOf(dom, n) ==
    IF ParentLi(dom, n) = "" THEN {}
    ELSE {ParentLi(dom, n)} \cup AncestorsOf(dom, ParentLi(dom, n))

RECURSIVE Select(_, _)
\* the elements of the sequence that are in the set, in order
Select(seq, set) ==
    IF seq = <<>> THEN <<>>
    ELSE (IF Head(seq) \in set THEN <<Head(seq)>> ELSE <<>>) \o Select(Tail(seq), set)

\* a list item with a link that has text
NamedLi(dom, n) == dom.kind[n] \notin {"nolink", "noname"}

\* the list items of a list of categories, in the order of the list
LiSeq(cats) == [i \in DOMAIN cats |-> cats[i].li]

\* C34 as stated: collect_all_categories returns, in document order and each
\* exactly once, the named nodes below the root whose link target is not the
\* empty-page sentinel, each with its nesting level as depth.
C34_NamedNonSentinelNodesInDocumentOrder ==
    (fx.op = "tree" /\ fx.last # "new") =>
        /\ LiSeq(fx.all_categories)
             = Select(DocumentOrder(fx.dom, fx.dom.top),
                      {n \in Lis : NamedLi(fx.dom, n) /\ fx.dom.kind[n] # "emptyPage"})
        /\ \A i \in DOMAIN fx.all_categories :
              fx.all_categories[i].depth = NestingLevel(fx.dom, fx.all_categories[i].li)

\* C34: collect_all_categories returns, in document order and each exactly
\* once, the nodes below the root that have a link with text and a target
\* that is neither missing nor the empty-page sentinel, and whose ancestors
\* all have a link with text; a node with a missing or sentinel target is left
\* out but its descendants are still visited; a list item without a link or
\* without link text is left out with everything below it; the depth of a
\* returned node is its nesting level below the root.
C34_LinkedNodesInDocumentOrder ==
    (fx.op = "tree" /\ fx.last # "new") =>
        /\ LiSeq(fx.all_categories)
             = Select(DocumentOrder(fx.dom, fx.dom.top),
                      {n \in Lis : /\ fx.dom.kind[n] \in {"plain", "level"}
                                   /\ \A a \in AncestorsOf(fx.dom, n) : NamedLi(fx.dom, a)})
        /\ \A i \in DOMAIN fx.all_categories :
              fx.all_categories[i].depth = NestingLevel(fx.dom, fx.all_categories[i].li)

\* the tree was read: a node with the sentinel target was left out, a node
\* below it was returned with depth 2, and a further node was returned
C34_Witness ==
    /\ fx.op = "tree" /\ fx.last = "collect"
    /\ Len(fx.all_categories) = 2
    /\ \E i \in DOMAIN fx.all_categories :
          /\ fx.all_categories[i].depth = 2
          /\ fx.dom.kind[ParentLi(fx.dom, fx.all_categories[i].li)] = "emptyPage"

(***************************************************************************)
(* Properties of the workers of one crawl                                  *)
(***************************************************************************)
\* the crawl state a worker owns
OwnState(W) == <<W.visited_categories, W.visited_documents, W.stats>>

\* C35: while the workers of a crawl are crawling, a step of one worker leaves
\* the visited categories, the visited documents and the statistics of every
\* other worker as they are, and the lists of categories handed to the
\* workers are never changed after they were assigned.
C35_WorkersShareNoCrawlState ==
    [][\A o \in Orchs :
         (orch[o].pc = "gathering" /\ orch'[o].pc = "gathering") =>
            /\ \A v \in WorkerIds, w \in WorkerIds :
                  (v # w /\ wk'[o][w] # wk[o][w]) =>
                      OwnState(wk'[o][v]) = OwnState(wk[o][v])
            /\ orch'[o].chunks = orch[o].chunks
            /\ orch'[o].assigned = orch[o].assigned
            /\ \A w \in WorkerIds : wk'[o][w].chunk = wk[o][w].chunk]_vars

\* two workers of one crawl have both crawled, one of them through its list,
\* and the lists are as assigned
C35_Witness ==
    \E o \in Orchs : \E v \in WorkerIds, w \in WorkerIds :
        /\ v # w
        /\ orch[o].pc = "gathering"
        /\ wk[o][v].visited_categories # {} /\ wk[o][w].visited_categories # {}
        /\ wk[o][v].task = "done" /\ wk[o][v].chunk # <<>>
        /\ wk[o][v].chunk = orch[o].assigned[v]

\* the ids that occur in the tree
IdsOf(tree) == Range(collect_all_categories(tree))

\* C36: crawl_category terminates, also when the children found for a
\* category include one of its ancestors or a category already visited: a
\* worker expands each id at most once, its calls are never nested deeper than
\* there are ids (plus the one call that returns at once), and every task of
\* a crawl that is not cancelled comes to its end.
C36_CrawlCategoryTerminates ==
    /\ [](\A ow \in AllWorkers :
            LET W == wk[ow[1]][ow[2]] IN
            /\ \A c \in Cats : W.obs.expanded[c] <= 1
            /\ Len(W.stack) <= Cardinality(IdsOf(env.tree)) + 1)
    /\ \A o \in Orchs : \A w \in WorkerIds :
          (orch[o].pc = "gathering" /\ wk[o][w].task = "running")
             ~> (wk[o][w].task # "running" \/ orch[o].pc # "gathering")

\* a worker is back in the category whose child listed the id of that
\* category again: the call for it has returned at once
C36_Witness ==
    \E ow \in AllWorkers :
        LET W == wk[ow[1]][ow[2]] IN
        /\ env.tree = TreeLoop
        /\ W.obs.expanded["A"] = 1 /\ W.obs.expanded["A1"] = 1
        /\ "A" \in W.obs.repeated
        /\ W.stats.categories_crawled = 2
        /\ W.task = "done"

(***************************************************************************)
(* Properties of the cleanup                                               *)
(***************************************************************************)
\* C37: over every interleaving of start requests, stop requests and the end
\* or cancellation of crawls, cleanup runs at most once on an orchestrator.
C37_CleanupRunsAtMostOnce ==
    \A o \in Orchs : orch[o].cleanups <= 1

(***************************************************************************)
(* Properties of the login                                                 *)
(***************************************************************************)
\* the credentials and the one-time code are sent at most once each, the code
\* never before the credentials, and a normal return follows both and finds
\* the page in the application
LoginSubmitsOnceInOrder ==
    fx.op = "login" =>
        /\ fx.login.creds_sent <= 1
        /\ fx.login.otp_sent <= 1
        /\ ~fx.login.otp_early
        /\ fx.login.otp_sent > 0 => fx.login.creds_sent > 0
        /\ fx.login.result = "returned" =>
              /\ fx.login.creds_sent = 1 /\ fx.login.otp_sent = 1
              /\ fx.login.url = "elsaweb"

\* C38 as stated: in wait_for_login the credentials and the one-time code are
\* submitted at most once each and in this order, the function returns only
\* after both and with the page in the application, and otherwise it raises a
\* timeout error once the deadline has passed.
C38_LoginReturnsOrTimesOut ==
    /\ LoginSubmitsOnceInOrder
    /\ (fx.op = "login" /\ fx.login.result \notin {"running", "returned"}) =>
          (fx.login.result = "timeout" /\ fx.login.now >= MaxLoginTime)

\* C38: in wait_for_login the credentials and the one-time code are submitted
\* at most once each and in this order, and the function returns only after
\* both and with the page in the application; otherwise it raises: the
\* timeout error once the deadline has passed, or before that the error of a
\* call on the page that raised.
C38_LoginReturnsTimesOutOrFails ==
    /\ LoginSubmitsOnceInOrder
    /\ (fx.op = "login" /\ fx.login.result \notin {"running", "returned"}) =>
          \/ fx.login.result = "timeout" /\ fx.login.now >= MaxLoginTime
                /\ fx.login.raised = "none"
          \/ fx.login.result = "error" /\ fx.login.raised # "none"

\* the login has returned after a round in which only the credentials were
\* sent and a later round in which the code was sent
C38_Witness ==
    /\ fx.op = "login"
    /\ fx.login.result = "returned"
    /\ fx.login.now > 0
    /\ fx.login.creds_sent = 1 /\ fx.login.otp_sent = 1

(***************************************************************************)
(* Properties of the vehicle history                                       *)
(***************************************************************************)
\* C39: the VehicleHistory returned by extract_complete_history has status
\* 'complete' only if listing the rows did not fail and every row of the table
\* was converted into an entry; any row or listing failure yields 'partial'
\* (or an error); total_entries = successful_entries + failed_entries.
C39_CompleteOnlyIfEveryRowConverted ==
    (fx.op = "history" /\ fx.done /\ ~fx.result.raised) =>
        LET converted == \A i \in DOMAIN fx.rows : fx.rows[i] \notin {"unknown", "raises"}
            all_there == Len(fx.result.entries) = Len(fx.rows)
        IN  /\ fx.result.extraction_status = "complete" =>
                  (~fx.listing_raises /\ converted /\ all_there)
            /\ (fx.listing_raises \/ ~converted) => fx.result.extraction_status = "partial"
            /\ fx.result.total_entries
                 = fx.result.successful_entries + fx.result.failed_entries

====
